---- MODULE Spec2Model ----
(***************************************************************************)
(* A model of json_sax.py: the JSON stream (SAX) parser.                   *)
(*                                                                         *)
(* Characters are modelled by their Unicode code points, a Python str by   *)
(* the sequence of the code points of its characters ("" is << >>), so     *)
(* that chr(int(value, 16)) and int(text) are computed, not assumed.       *)
(* TextPos objects are [line, col] records; an error that was handed the   *)
(* lexer's own TextPos object (not a copy) is marked "aliased".            *)
(***************************************************************************)
EXTENDS Integers, Sequences, FiniteSets, TLC

VARIABLES
    input,      \* the characters the reader (io.TextIOBase) delivers
    doc,        \* the value the input was written from (DocNone when none)
    docLen,     \* number of leading characters of input that spell doc
    lexer,      \* the fields of the Lexer object
    lexemes,    \* what Lexer.next_lexeme returned or raised, call by call
    status,     \* "idle" | "returned" | "raised": how SAXParser.run() ended
    raised,     \* the error run() (or reading result) raised, NoError if none
    curr,       \* SAXParser._curr
    events,     \* the handler callbacks invoked, in order
    stack,      \* SAXHandlerBasic._stack._data
    result      \* what reading SAXHandlerBasic.result gave (NotRead before)

vars == <<input, doc, docLen, lexer, lexemes, status, raised, curr, events, stack, result>>

----------------------------------------------------------------------------
(* Characters *)

\* ord() of the characters the inputs are written with (the definitions of
\* the program's operations give the code points themselves)
Ord ==
    [s \in {"\t", "\n", "\r", " ", "\"", "+", ",", "-", ".", "/", "0", "1",
            "2", "3", "4", "9", ":", "A", "E", "F", "G", "[", "\\", "]", "a",
            "b", "e", "f", "g", "l", "n", "r", "s", "t", "u", "x", "{", "}",
            "BS", "FF", "SUPERSCRIPT TWO", "ARABIC-INDIC DIGIT THREE"} |->
        CASE s = "BS" -> 8
          [] s = "\t" -> 9
          [] s = "\n" -> 10
          [] s = "FF" -> 12
          [] s = "\r" -> 13
          [] s = " " -> 32
          [] s = "\"" -> 34
          [] s = "+" -> 43
          [] s = "," -> 44
          [] s = "-" -> 45
          [] s = "." -> 46
          [] s = "/" -> 47
          [] s = "0" -> 48
          [] s = "1" -> 49
          [] s = "2" -> 50
          [] s = "3" -> 51
          [] s = "4" -> 52
          [] s = "9" -> 57
          [] s = ":" -> 58
          [] s = "A" -> 65
          [] s = "E" -> 69
          [] s = "F" -> 70
          [] s = "G" -> 71
          [] s = "[" -> 91
          [] s = "\\" -> 92
          [] s = "]" -> 93
          [] s = "a" -> 97
          [] s = "b" -> 98
          [] s = "e" -> 101
          [] s = "f" -> 102
          [] s = "g" -> 103
          [] s = "l" -> 108
          [] s = "n" -> 110
          [] s = "r" -> 114
          [] s = "s" -> 115
          [] s = "t" -> 116
          [] s = "u" -> 117
          [] s = "x" -> 120
          [] s = "{" -> 123
          [] s = "}" -> 125
          [] s = "SUPERSCRIPT TWO" -> 178
          [] s = "ARABIC-INDIC DIGIT THREE" -> 1635]

\* a one-character str
Chr(s) == <<Ord[s]>>

\* a str written as the tuple of its characters
Str(t) == [i \in 1..Len(t) |-> Ord[t[i]]]

\* str.isdigit(), on the characters of the model: the ASCII digits, the
\* Arabic-Indic digits (category Nd) and SUPERSCRIPT TWO (category No)
isdigit(c) ==
    /\ c # << >>
    /\ \/ c[1] \in 48..57
       \/ c[1] \in 1632..1641
       \/ c[1] = 178

\* the value int(_, base) gives a character as a digit, -1 where int()
\* raises ValueError
DigitValue(ch) ==
    IF ch \in 48..57 THEN ch - 48
    ELSE IF ch \in 1632..1641 THEN ch - 1632
    ELSE IF ch \in 97..102 THEN ch - 87
    ELSE IF ch \in 65..70 THEN ch - 55
    ELSE -1

----------------------------------------------------------------------------
(* Tokens, positions, lexemes, errors *)

ERR_INVALID_LITERAL_FMT == 1010
ERR_INVALID_NUMBER == 1020
ERR_UNALLOWED_ESCAPE_SEQ == 1040
ERR_UNCLOSED_STRING == 1050
ERR_UNEXPECTED_CHAR_FMT == 1060
ERR_UNRECOGNIZED_ESCAPE_SEQ_FMT == 1070
ERR_EXPECTED_ARRAY == 2100
ERR_EXPECTED_ARRAY_ITEM == 2105
ERR_EXPECTED_EOF == 2107
ERR_EXPECTED_LITERAL == 2110
ERR_EXPECTED_MEMBER_NAME == 2112
ERR_EXPECTED_NAME_SEPARATOR == 2014
ERR_EXPECTED_NUMBER == 2116
ERR_EXPECTED_OBJECT == 2120
ERR_EXPECTED_STRING == 2125
ERR_EXPECTED_VALUE == 2150
ERR_EXPECTED_VALUE_BUT_FOUND_FMT == 2155
ERR_UNCLOSED_ARRAY == 2290
ERR_UNCLOSED_OBJECT == 2295
ERR_UNEXPECTED_LEXEME_FMT == 2300

\* TextPos(line, col)
TextPos(line, col) == [line |-> line, col |-> col]

\* Lexer._pos.make_copy()
make_copy(L) == TextPos(L.line, L.col)

\* Lexeme, were it handed the lexer's own TextPos object
Lexeme_sharing_pos(pos, tok, text, literal_kind, numeric_kind) ==
    [kind |-> "lexeme", token |-> tok, text |-> text, pos |-> pos,
     literal_kind |-> literal_kind, numeric_kind |-> numeric_kind,
     exc |-> "", msg_id |-> 0, aliased |-> TRUE]

\* Lexeme(pos, tok, text, literal_kind, numeric_kind): every caller hands it
\* a copy of the lexer's position
Lexeme(pos, tok, text, literal_kind, numeric_kind) ==
    [kind |-> "lexeme", token |-> tok, text |-> text, pos |-> pos,
     literal_kind |-> literal_kind, numeric_kind |-> numeric_kind,
     exc |-> "", msg_id |-> 0, aliased |-> FALSE]

\* Python's None, as next_lexeme returns it at the end of the stream
None ==
    [kind |-> "none", token |-> "UNKNOWN", text |-> << >>, pos |-> TextPos(0, 0),
     literal_kind |-> "LT_UNKNOWN", numeric_kind |-> "NT_UNKNOWN",
     exc |-> "", msg_id |-> 0, aliased |-> FALSE]

\* JSONParserError(pos, msg_id): aliased when pos is the lexer's own TextPos
JSONParserError(pos, msg_id, aliased) ==
    [kind |-> "error", token |-> "UNKNOWN", text |-> << >>, pos |-> pos,
     literal_kind |-> "LT_UNKNOWN", numeric_kind |-> "NT_UNKNOWN",
     exc |-> "JSONParserError", msg_id |-> msg_id, aliased |-> aliased]

\* an exception of another class (ValueError, JSONError)
PyError(exc) ==
    [kind |-> "error", token |-> "UNKNOWN", text |-> << >>, pos |-> TextPos(0, 0),
     literal_kind |-> "LT_UNKNOWN", numeric_kind |-> "NT_UNKNOWN",
     exc |-> exc, msg_id |-> 0, aliased |-> FALSE]

----------------------------------------------------------------------------
(* NumericParser *)

\* NumericParser.__init__
NumericParser ==
    [char_count |-> 0, digit_count |-> 0, type |-> "NT_UNKNOWN",
     accepting_type |-> "NT_INTEGER", value |-> << >>]

\* accept, were it to put the character in front of the value
accept_prepends(np, c) == [np EXCEPT !.char_count = @ + 1, !.value = c \o @]

\* NumericParser.accept
accept(np, c) == [np EXCEPT !.char_count = @ + 1, !.value = @ \o c]

EXP_CHARS == {<<101>>, <<69>>}  \* 'e', 'E'

\* read_char, were a '+' taken anywhere in the exponent
read_char_plus_in_exponent(np, c) ==
    IF c = <<45>> THEN
        IF np.char_count = 0
        THEN [np |-> accept(np, c), ok |-> TRUE]
        ELSE [np |-> np, ok |-> TRUE]
    ELSE IF c = <<43>> THEN
        IF np.accepting_type = "NT_FLOAT"
        THEN [np |-> accept(np, c), ok |-> TRUE]
        ELSE [np |-> np, ok |-> FALSE]
    ELSE IF c = <<46>> THEN
        IF np.accepting_type = "NT_INTEGER" /\ np.digit_count > 0
        THEN [np |-> [accept(np, c) EXCEPT !.accepting_type = "NT_DECIMAL",
                                           !.type = "NT_UNKNOWN"],
              ok |-> TRUE]
        ELSE [np |-> np, ok |-> FALSE]
    ELSE IF isdigit(c) THEN
        IF np.accepting_type = "NT_INTEGER" /\ np.digit_count = 1 /\ np.value = <<48>>
        THEN [np |-> [np EXCEPT !.type = "NT_UNKNOWN"], ok |-> FALSE]
        ELSE [np |-> [accept(np, c) EXCEPT !.digit_count = @ + 1,
                                           !.type = np.accepting_type],
              ok |-> TRUE]
    ELSE IF c \in EXP_CHARS THEN
        IF np.accepting_type = "NT_INTEGER" \/ np.accepting_type = "NT_DECIMAL"
        THEN [np |-> [accept(np, c) EXCEPT !.char_count = 0, !.digit_count = 0,
                                           !.type = "NT_UNKNOWN",
                                           !.accepting_type = "NT_FLOAT"],
              ok |-> TRUE]
        ELSE [np |-> [np EXCEPT !.type = "NT_UNKNOWN"], ok |-> FALSE]
    ELSE [np |-> np, ok |-> FALSE]

\* NumericParser.read_char: the parser after the call and the value returned
read_char(np, c) ==
    IF c = <<45>> THEN  \* '-'
        IF np.char_count = 0
        THEN [np |-> accept(np, c), ok |-> TRUE]
        ELSE [np |-> np, ok |-> TRUE]
    ELSE IF c = <<43>> THEN  \* '+'
        IF np.accepting_type = "NT_FLOAT" /\ np.char_count = 0
        THEN [np |-> accept(np, c), ok |-> TRUE]
        ELSE [np |-> np, ok |-> FALSE]
    ELSE IF c = <<46>> THEN  \* '.'
        IF np.accepting_type = "NT_INTEGER" /\ np.digit_count > 0
        THEN [np |-> [accept(np, c) EXCEPT !.accepting_type = "NT_DECIMAL",
                                           !.type = "NT_UNKNOWN"],
              ok |-> TRUE]
        ELSE [np |-> np, ok |-> FALSE]
    ELSE IF isdigit(c) THEN
        IF np.accepting_type = "NT_INTEGER" /\ np.digit_count = 1 /\ np.value = <<48>>  \* '0'
        THEN [np |-> [np EXCEPT !.type = "NT_UNKNOWN"], ok |-> FALSE]
        ELSE [np |-> [accept(np, c) EXCEPT !.digit_count = @ + 1,
                                           !.type = np.accepting_type],
              ok |-> TRUE]
    ELSE IF c \in EXP_CHARS THEN
        IF np.accepting_type = "NT_INTEGER" \/ np.accepting_type = "NT_DECIMAL"
        THEN [np |-> [accept(np, c) EXCEPT !.char_count = 0, !.digit_count = 0,
                                           !.type = "NT_UNKNOWN",
                                           !.accepting_type = "NT_FLOAT"],
              ok |-> TRUE]
        ELSE [np |-> [np EXCEPT !.type = "NT_UNKNOWN"], ok |-> FALSE]
    ELSE [np |-> np, ok |-> FALSE]

----------------------------------------------------------------------------
(* Lexer *)

DEC_DIGITS == {<<48>>, <<49>>, <<50>>, <<51>>, <<52>>, <<53>>, <<54>>, <<55>>, <<56>>, <<57>>}  \* '0' .. '9'
DEC_DIGITS_S == DEC_DIGITS \cup {<<45>>, <<43>>}  \* '-', '+'
HEX_DIGITS == {<<97>>, <<65>>, <<98>>, <<66>>, <<99>>, <<67>>, <<100>>, <<68>>, <<101>>, <<69>>, <<102>>, <<70>>}  \* 'a', 'A' .. 'f', 'F'
WHITESPACES_without_newline == {<<32>>, <<9>>, <<13>>}

WHITESPACES == {<<32>>, <<9>>, <<13>>, <<10>>}  \* ' ', '\t', '\r', '\n'
LITERAL_PREFIXES == {<<102>>, <<110>>, <<116>>}  \* 'f', 'n', 't'

STRUCTURALS ==
    [c \in {<<91>>, <<123>>, <<93>>, <<125>>, <<58>>, <<44>>} |->  \* '[', '{', ']', '}', ':', ','
        CASE c = <<91>> -> "BEGIN_ARRAY"  \* '['
          [] c = <<123>> -> "BEGIN_OBJECT"  \* '{'
          [] c = <<93>> -> "END_ARRAY"  \* ']'
          [] c = <<125>> -> "END_OBJECT"  \* '}'
          [] c = <<58>> -> "NAME_SEPARATOR"  \* ':'
          [] c = <<44>> -> "VALUE_SEPARATOR"]  \* ','

\* ESCAPE_CHARS, were 'a' an escape letter too
ESCAPE_CHARS_with_a ==
    [c \in {<<34>>, <<92>>, <<47>>, <<98>>, <<102>>, <<110>>, <<114>>, <<116>>, <<97>>} |->
        CASE c = <<34>> -> <<34>>
          [] c = <<92>> -> <<92>>
          [] c = <<47>> -> <<47>>
          [] c = <<98>> -> <<8>>
          [] c = <<102>> -> <<12>>
          [] c = <<110>> -> <<10>>
          [] c = <<114>> -> <<13>>
          [] c = <<116>> -> <<9>>
          [] c = <<97>> -> <<7>>]

ESCAPE_CHARS ==
    [c \in {<<34>>, <<92>>, <<47>>, <<98>>, <<102>>, <<110>>, <<114>>, <<116>>} |->  \* '"', '\\', '/', 'b', 'f', 'n', 'r', 't'
        CASE c = <<34>> -> <<34>>  \* '"'
          [] c = <<92>> -> <<92>>  \* '\\'
          [] c = <<47>> -> <<47>>  \* '/'
          [] c = <<98>> -> <<8>>  \* 'b', '\b'
          [] c = <<102>> -> <<12>>  \* 'f', '\f'
          [] c = <<110>> -> <<10>>  \* 'n', '\n'
          [] c = <<114>> -> <<13>>  \* 'r', '\r'
          [] c = <<116>> -> <<9>>]  \* 't', '\t'

\* Lexer.__init__ (rd counts the characters the reader has delivered)
LexerInit ==
    [rd |-> 0, c |-> << >>, c_accepted |-> FALSE, eof |-> FALSE,
     initial |-> TRUE, line |-> 1, col |-> 0]

\* is_hex_digit, were it to take every letter up to 'G' for a digit
is_hex_digit_wide(c) == isdigit(c) \/ c \in HEX_DIGITS \/ c = <<71>>  \* 'G'

is_hex_digit(c) == isdigit(c) \/ c \in HEX_DIGITS
is_structural(c) == c \in DOMAIN STRUCTURALS

\* is_whitespace, were the form feed a whitespace too
is_whitespace_with_ff(c) == c \in WHITESPACES \cup {<<12>>}

is_whitespace(c) == c \in WHITESPACES

\* next_char, were the column never to start again
next_char_without_reset(L) ==
    LET is_new_line == L.c = <<10>>
        c == IF L.rd < Len(input) THEN <<input[L.rd + 1]>> ELSE << >>
    IN  IF c # << >>
        THEN [L EXCEPT !.rd = @ + 1, !.c = c, !.eof = FALSE, !.c_accepted = FALSE,
                       !.line = IF is_new_line THEN @ + 1 ELSE @,
                       !.col = @ + 1]
        ELSE [L EXCEPT !.c = c, !.eof = TRUE]

\* Lexer.next_char: the lexer after the call; the call returns ~eof
next_char(L) ==
    LET is_new_line == L.c = <<10>>  \* '\n'
        c == IF L.rd < Len(input) THEN <<input[L.rd + 1]>> ELSE << >>
    IN  IF c # << >>
        THEN [L EXCEPT !.rd = @ + 1, !.c = c, !.eof = FALSE, !.c_accepted = FALSE,
                       !.line = IF is_new_line THEN @ + 1 ELSE @,
                       !.col = IF is_new_line THEN 1 ELSE @ + 1]
        ELSE [L EXCEPT !.c = c, !.eof = TRUE]

\* what a lexer method hands back: the lexer after it, and its outcome
Ret(L, out) == [lx |-> L, out |-> out]

\* int16, were the base left out (base 10)
RECURSIVE int16_base10(_)
int16_base10(value) ==
    IF value = << >> THEN 0
    ELSE LET hi == int16_base10(SubSeq(value, 1, Len(value) - 1))
             d == DigitValue(value[Len(value)])
         IN  IF hi < 0 \/ d < 0 THEN -1 ELSE 10 * hi + d

\* int(value, base = 16), -1 where it raises ValueError
RECURSIVE int16(_)
int16(value) ==
    IF value = << >> THEN 0
    ELSE LET hi == int16(SubSeq(value, 1, Len(value) - 1))
             d == DigitValue(value[Len(value)])
         IN  IF hi < 0 \/ d < 0 THEN -1 ELSE 16 * hi + d

\* Lexer.handle_escaped_char: the loop from its i-th round on
RECURSIVE escaped_char_loop(_, _, _, _)
escaped_char_loop(L, start, value, i) ==
    IF i = 4 THEN
        IF int16(value) < 0
        THEN Ret(L, PyError("ValueError"))
        ELSE Ret(L, Lexeme(start, "UNKNOWN", <<int16(value)>>, "LT_UNKNOWN", "NT_UNKNOWN"))
    ELSE
        LET L1 == next_char(L) IN
        IF ~(~L1.eof /\ is_hex_digit(L1.c))
        THEN Ret(L1, JSONParserError(start, ERR_UNALLOWED_ESCAPE_SEQ, FALSE))
        ELSE escaped_char_loop([L1 EXCEPT !.c_accepted = TRUE], start, value \o L1.c, i + 1)

\* Lexer.handle_escaped_char: out.text is the str returned
handle_escaped_char(L, start) == escaped_char_loop(L, start, << >>, 0)

\* literal_loop, were a literal to run up to whitespace only
RECURSIVE literal_loop_to_whitespace(_, _)
literal_loop_to_whitespace(L, value) ==
    LET L1 == next_char(L) IN
    IF L1.eof THEN [lx |-> L1, value |-> value]
    ELSE IF is_whitespace(L1.c) THEN [lx |-> L1, value |-> value]
    ELSE literal_loop_to_whitespace([L1 EXCEPT !.c_accepted = TRUE], value \o L1.c)

\* Lexer.handle_literal: the while loop
RECURSIVE literal_loop(_, _)
literal_loop(L, value) ==
    LET L1 == next_char(L) IN
    IF L1.eof THEN [lx |-> L1, value |-> value]
    ELSE IF is_whitespace(L1.c) \/ is_structural(L1.c) THEN [lx |-> L1, value |-> value]
    ELSE literal_loop([L1 EXCEPT !.c_accepted = TRUE], value \o L1.c)

\* Lexer.handle_literal
handle_literal(L) ==
    LET pos == make_copy(L)
        \* after the while loop
        read(r) ==
            IF r.value = <<102, 97, 108, 115, 101>>  \* "false"
            THEN Ret(r.lx, Lexeme(pos, "LITERAL_FALSE", r.value, "LT_FALSE", "NT_UNKNOWN"))
            ELSE IF r.value = <<110, 117, 108, 108>>  \* "null"
            THEN Ret(r.lx, Lexeme(pos, "LITERAL_NULL", r.value, "LT_NULL", "NT_UNKNOWN"))
            ELSE IF r.value = <<116, 114, 117, 101>>  \* "true"
            THEN Ret(r.lx, Lexeme(pos, "LITERAL_TRUE", r.value, "LT_TRUE", "NT_UNKNOWN"))
            ELSE Ret(r.lx, JSONParserError(pos, ERR_INVALID_LITERAL_FMT, FALSE))
    IN  read(literal_loop([L EXCEPT !.c_accepted = TRUE], L.c))

\* Lexer.handle_number: the while loop
RECURSIVE number_loop(_, _)
number_loop(L, np) ==
    LET \* after self._c has been read by the numeric parser
        read(r) ==
            IF r.ok
            THEN LET L1 == next_char([L EXCEPT !.c_accepted = TRUE]) IN
                 IF ~L1.eof THEN number_loop(L1, r.np) ELSE [lx |-> L1, np |-> r.np]
            ELSE [lx |-> L, np |-> r.np]
    IN  read(read_char(np, L.c))

\* Lexer.handle_number: the token of the numeric parser's type
number_token(type) ==
    CASE type = "NT_DECIMAL" -> "NUMBER_DECIMAL"
      [] type = "NT_FLOAT" -> "NUMBER_FLOAT"
      [] type = "NT_INTEGER" -> "NUMBER_INT"
      [] OTHER -> "UNKNOWN"

\* handle_number, were it to raise at the position of the number's first
\* character
handle_number_at_start(L) ==
    LET pos == make_copy(L)
        \* after the while loop
        read(r) ==
            IF number_token(r.np.type) = "UNKNOWN"
            THEN Ret(r.lx, JSONParserError(pos, ERR_INVALID_NUMBER, FALSE))
            ELSE IF r.lx.c_accepted \/ is_whitespace(r.lx.c) \/ is_structural(r.lx.c)
            THEN Ret(r.lx, Lexeme(pos, number_token(r.np.type), r.np.value, "LT_UNKNOWN", r.np.type))
            ELSE Ret(r.lx, JSONParserError(pos, ERR_INVALID_NUMBER, FALSE))
    IN  read(number_loop(L, NumericParser))

\* Lexer.handle_number
handle_number(L) ==
    LET pos == make_copy(L)
        \* after the while loop
        read(r) ==
            IF number_token(r.np.type) = "UNKNOWN"
            THEN Ret(r.lx, JSONParserError(make_copy(r.lx), ERR_INVALID_NUMBER, TRUE))
            ELSE IF r.lx.c_accepted \/ is_whitespace(r.lx.c) \/ is_structural(r.lx.c)
            THEN Ret(r.lx, Lexeme(pos, number_token(r.np.type), r.np.value, "LT_UNKNOWN", r.np.type))
            ELSE Ret(r.lx, JSONParserError(make_copy(r.lx), ERR_INVALID_NUMBER, TRUE))
    IN  read(number_loop(L, NumericParser))

\* string_loop, were the end of the stream reported at the opening quote
RECURSIVE string_loop_at_start(_, _, _)
string_loop_at_start(L, start_pos, value) ==
    LET unicode(h) ==
            IF h.out.kind = "error" THEN h
            ELSE string_loop_at_start(h.lx, start_pos, value \o h.out.text)
        escape(pos, L2) ==
            IF L2.eof
            THEN Ret(L2, JSONParserError(start_pos, ERR_UNCLOSED_STRING, FALSE))
            ELSE IF L2.c \in DOMAIN ESCAPE_CHARS
            THEN string_loop_at_start([L2 EXCEPT !.c_accepted = TRUE], start_pos,
                                      value \o ESCAPE_CHARS[L2.c])
            ELSE IF L2.c = <<117>>
            THEN unicode(handle_escaped_char(L2, pos))
            ELSE Ret(L2, JSONParserError(pos, ERR_UNRECOGNIZED_ESCAPE_SEQ_FMT, FALSE))
        char(L1) ==
            IF L1.eof
            THEN Ret(L1, JSONParserError(start_pos, ERR_UNCLOSED_STRING, FALSE))
            ELSE IF L1.c = <<34>>
            THEN Ret([L1 EXCEPT !.c_accepted = TRUE],
                     Lexeme(start_pos, "STRING", value, "LT_UNKNOWN", "NT_UNKNOWN"))
            ELSE IF L1.c = <<92>>
            THEN escape(make_copy(L1), next_char(L1))
            ELSE string_loop_at_start([L1 EXCEPT !.c_accepted = TRUE], start_pos, value \o L1.c)
    IN  char(next_char(L))

\* Lexer.handle_string: the while loop
RECURSIVE string_loop(_, _, _)
string_loop(L, start_pos, value) ==
    LET \* after handle_escaped_char
        unicode(h) ==
            IF h.out.kind = "error" THEN h
            ELSE string_loop(h.lx, start_pos, value \o h.out.text)
        \* after the character that follows a backslash at pos
        escape(pos, L2) ==
            IF L2.eof
            THEN Ret(L2, JSONParserError(pos, ERR_UNCLOSED_STRING, FALSE))
            ELSE IF L2.c \in DOMAIN ESCAPE_CHARS
            THEN string_loop([L2 EXCEPT !.c_accepted = TRUE], start_pos,
                             value \o ESCAPE_CHARS[L2.c])
            ELSE IF L2.c = <<117>>  \* 'u'
            THEN unicode(handle_escaped_char(L2, pos))
            ELSE Ret(L2, JSONParserError(pos, ERR_UNRECOGNIZED_ESCAPE_SEQ_FMT, FALSE))
        \* after next_char()
        char(L1) ==
            IF L1.eof
            THEN Ret(L1, JSONParserError(make_copy(L1), ERR_UNCLOSED_STRING, TRUE))
            ELSE IF L1.c = <<34>>  \* '"'
            THEN Ret([L1 EXCEPT !.c_accepted = TRUE],
                     Lexeme(start_pos, "STRING", value, "LT_UNKNOWN", "NT_UNKNOWN"))
            ELSE IF L1.c = <<92>>  \* '\\'
            THEN escape(make_copy(L1), next_char(L1))
            ELSE string_loop([L1 EXCEPT !.c_accepted = TRUE], start_pos, value \o L1.c)
    IN  char(next_char(L))

\* Lexer.handle_string
handle_string(L) == string_loop(L, make_copy(L), << >>)

\* Lexer.skip_whitespaces
RECURSIVE skip_whitespaces(_)
skip_whitespaces(L) ==
    IF is_whitespace(L.c)
    THEN skip_whitespaces(next_char([L EXCEPT !.c_accepted = TRUE]))
    ELSE L

\* lexeme_at, were a ',' returned without being accepted
lexeme_at_leaving_comma(L2) ==
    IF ~L2.c_accepted
    THEN IF L2.c = <<34>> THEN handle_string(L2)
         ELSE IF L2.c \in DEC_DIGITS_S THEN handle_number(L2)
         ELSE IF L2.c \in DOMAIN STRUCTURALS
         THEN Ret([L2 EXCEPT !.c_accepted = (L2.c # <<44>>)],
                  Lexeme(make_copy(L2), STRUCTURALS[L2.c], L2.c, "LT_UNKNOWN", "NT_UNKNOWN"))
         ELSE IF L2.c \in LITERAL_PREFIXES THEN handle_literal(L2)
         ELSE Ret(L2, JSONParserError(make_copy(L2), ERR_UNEXPECTED_CHAR_FMT, FALSE))
    ELSE IF L2.eof THEN Ret(L2, None)
    ELSE Ret(L2, JSONParserError(make_copy(L2), ERR_UNEXPECTED_CHAR_FMT, TRUE))

\* Lexer.next_lexeme from the character after the whitespace on
lexeme_at(L2) ==
    IF ~L2.c_accepted
    THEN IF L2.c = <<34>> THEN handle_string(L2)  \* '"'
         ELSE IF L2.c \in DEC_DIGITS_S THEN handle_number(L2)
         ELSE IF L2.c \in DOMAIN STRUCTURALS
         THEN Ret([L2 EXCEPT !.c_accepted = TRUE],
                  Lexeme(make_copy(L2), STRUCTURALS[L2.c], L2.c, "LT_UNKNOWN", "NT_UNKNOWN"))
         ELSE IF L2.c \in LITERAL_PREFIXES THEN handle_literal(L2)
         ELSE Ret(L2, JSONParserError(make_copy(L2), ERR_UNEXPECTED_CHAR_FMT, FALSE))
    ELSE IF L2.eof THEN Ret(L2, None)
    ELSE Ret(L2, JSONParserError(make_copy(L2), ERR_UNEXPECTED_CHAR_FMT, TRUE))

\* next_lexeme, were the lexer to forget at the end of the stream that its
\* character was accepted
next_lexeme_forgetting_accepted(L) ==
    IF (L.c_accepted \/ L.initial) /\ next_char(L).eof
    THEN Ret([next_char(L) EXCEPT !.c_accepted = FALSE, !.initial = FALSE], None)
    ELSE lexeme_at(skip_whitespaces(
             [(IF L.c_accepted \/ L.initial THEN next_char(L) ELSE L) EXCEPT !.initial = FALSE]))

\* Lexer.next_lexeme
next_lexeme(L) ==
    IF (L.c_accepted \/ L.initial) /\ next_char(L).eof
    THEN Ret(next_char(L), None)
    ELSE lexeme_at(skip_whitespaces(
             [(IF L.c_accepted \/ L.initial THEN next_char(L) ELSE L) EXCEPT !.initial = FALSE]))

----------------------------------------------------------------------------
(* Python values, as SAXHandlerBasic builds them: <<tag, payload>> *)

PyNone == <<"null", 0>>
PyBool(b) == <<"bool", b>>
PyInt(n) == <<"int", n>>
PyFloatOf(m, e) == <<"float", <<m, e>>>>
PyStr(text) == <<"str", text>>
PyList(items) == <<"list", items>>
PyDict(members) == <<"dict", members>>

\* the characters of text from the i-th on that are decimal digits to int()
RECURSIVE DigitRun(_, _)
DigitRun(text, i) ==
    IF i <= Len(text) /\ isdigit(<<text[i]>>)
    THEN <<text[i]>> \o DigitRun(text, i + 1)
    ELSE << >>

\* the number a run of digits denotes in base 10, -1 where int() raises
RECURSIVE int10(_)
int10(digits) ==
    IF digits = << >> THEN 0
    ELSE LET hi == int10(SubSeq(digits, 1, Len(digits) - 1))
             d == DigitValue(digits[Len(digits)])
         IN  IF hi < 0 \/ d < 0 \/ d > 9 THEN -1 ELSE 10 * hi + d

RECURSIVE Pow10(_)
Pow10(n) == IF n = 0 THEN 1 ELSE 10 * Pow10(n - 1)

\* int() of a text whose digits after the sign are given
IntOf(text, neg, digits) ==
    IF \/ digits = << >>
       \/ Len(digits) + (IF neg THEN 1 ELSE 0) # Len(text)
       \/ int10(digits) < 0
    THEN [ok |-> FALSE, value |-> PyNone]
    ELSE [ok |-> TRUE, value |-> PyInt(IF neg THEN 0 - int10(digits) ELSE int10(digits))]

\* int(text) of a text made of '-', '+', '.', 'e', 'E' and digits:
\* ok is FALSE where int() raises ValueError
PyIntParse(text) ==
    IF text # << >> /\ text[1] = 45  \* '-'
    THEN IntOf(text, TRUE, DigitRun(text, 2))
    ELSE IntOf(text, FALSE, DigitRun(text, 1))

\* m * 10^e with the trailing zeros of m moved into e
RECURSIVE Normalize(_, _)
Normalize(m, e) ==
    IF m = 0 THEN <<0, 0>>
    ELSE IF m % 10 = 0 THEN Normalize(m \div 10, e + 1)
    ELSE <<m, e>>

\* the float of a sign and a normalized mantissa and exponent
FloatSigned(neg, n) == PyFloatOf(IF neg THEN 0 - n[1] ELSE n[1], n[2])

\* float() of a text read to i3: the sign, the digits of the mantissa, how
\* many of them follow the point, and the sign and the digits of the exponent
FloatOf(text, neg, digits, frac_len, has_exp, eneg, i3, edigits) ==
    IF \/ digits = << >>
       \/ has_exp /\ edigits = << >>
       \/ i3 + Len(edigits) # Len(text) + 1
       \/ int10(digits) < 0
       \/ int10(edigits) < 0
    THEN [ok |-> FALSE, value |-> PyNone]
    ELSE [ok |-> TRUE,
          value |-> FloatSigned(neg, Normalize(int10(digits),
                        (IF eneg THEN 0 - int10(edigits) ELSE int10(edigits)) - frac_len))]

\* float() from the place i2 where the mantissa ends
FloatExp(text, neg, digits, frac_len, i2) ==
    IF i2 <= Len(text) /\ <<text[i2]>> \in EXP_CHARS
    THEN IF i2 + 1 <= Len(text) /\ text[i2 + 1] \in {45, 43}  \* '-', '+'
         THEN FloatOf(text, neg, digits, frac_len, TRUE, text[i2 + 1] = 45,  \* '-'
                      i2 + 2, DigitRun(text, i2 + 2))
         ELSE FloatOf(text, neg, digits, frac_len, TRUE, FALSE, i2 + 1, DigitRun(text, i2 + 1))
    ELSE FloatOf(text, neg, digits, frac_len, FALSE, FALSE, i2, << >>)

\* float() from the digits fpart that follow the point, the first at i
FloatFrac(text, neg, ipart, i, fpart) ==
    FloatExp(text, neg, ipart \o fpart, Len(fpart), i + Len(fpart))

\* float() from the digits ipart that follow the sign, the first at i0
FloatInt(text, neg, i0, ipart) ==
    IF i0 + Len(ipart) <= Len(text) /\ text[i0 + Len(ipart)] = 46  \* '.'
    THEN FloatFrac(text, neg, ipart, i0 + Len(ipart) + 1, DigitRun(text, i0 + Len(ipart) + 1))
    ELSE FloatExp(text, neg, ipart, 0, i0 + Len(ipart))

\* float(text) of a text made of '-', '+', '.', 'e', 'E' and digits, as the
\* decimal number it denotes (mantissa, exponent of ten); ok is FALSE where
\* float() raises ValueError
PyFloatParse(text) ==
    IF text # << >> /\ text[1] = 45  \* '-'
    THEN FloatInt(text, TRUE, 2, DigitRun(text, 2))
    ELSE FloatInt(text, FALSE, 1, DigitRun(text, 1))

----------------------------------------------------------------------------
(* SAXHandlerBasic *)

\* a handler callback and its arguments
Event(name, kind, text, count, pos) ==
    [name |-> name, kind |-> kind, text |-> text, count |-> count, pos |-> pos]

\* what a handler method hands back: the stack after it, the exception raised
HRet(stk, exc) == [stack |-> stk, exc |-> exc]

\* SimpleStack.pop, n times
PopN(stk, n) == SubSeq(stk, 1, Len(stk) - n)

\* SAXHandlerBasic.on_literal
on_literal(stk, kind) ==
    IF kind = "LT_FALSE" THEN HRet(Append(stk, PyBool(FALSE)), "")
    ELSE IF kind = "LT_TRUE" THEN HRet(Append(stk, PyBool(TRUE)), "")
    ELSE IF kind = "LT_NULL" THEN HRet(Append(stk, PyNone), "")
    ELSE HRet(stk, "JSONError")

\* SAXHandlerBasic.on_number
on_number(stk, kind, text) ==
    LET \* self._stack.push(...) of what int() or float() gave
        push(r) == IF r.ok THEN HRet(Append(stk, r.value), "") ELSE HRet(stk, "ValueError")
    IN  IF kind = "NT_INTEGER" THEN push(PyIntParse(text))
        ELSE IF kind \in {"NT_DECIMAL", "NT_FLOAT"} THEN push(PyFloatParse(text))
        ELSE HRet(stk, "JSONError")

\* SAXHandlerBasic.on_string
on_string(stk, text) == HRet(Append(stk, PyStr(text)), "")

\* on_member_name, were the name not pushed
on_member_name_not_pushing(stk, text) == HRet(stk, "")

\* SAXHandlerBasic.on_member_name
on_member_name(stk, text) == HRet(Append(stk, PyStr(text)), "")

\* the for loop of SAXHandlerBasic.on_end_object: obj after popping the
\* topmost n (name, value) pairs, the topmost pair first
RECURSIVE end_object_loop(_, _, _)
end_object_loop(stk, n, obj) ==
    IF n = 0 THEN obj
    ELSE LET value == stk[Len(stk)]
             name == stk[Len(stk) - 1][2]
         IN  end_object_loop(PopN(stk, 2), n - 1,
                 [k \in DOMAIN obj \cup {name} |-> IF k = name THEN value ELSE obj[k]])

\* SAXHandlerBasic.on_end_object
on_end_object(stk, member_count) ==
    IF member_count * 2 > Len(stk) THEN HRet(stk, "JSONError")
    ELSE HRet(Append(PopN(stk, member_count * 2),
                     PyDict(end_object_loop(stk, member_count, << >>))), "")

\* SAXHandlerBasic.on_end_array
on_end_array(stk, element_count) ==
    IF element_count > Len(stk) THEN HRet(stk, "JSONError")
    ELSE HRet(Append(PopN(stk, element_count),
                     PyList(SubSeq(stk, Len(stk) - element_count + 1, Len(stk)))), "")

\* SAXHandlerBasic.on_begin_object
on_begin_object(stk) == HRet(stk, "")

\* SAXHandlerBasic.on_begin_array
on_begin_array(stk) == HRet(stk, "")

\* SAXHandlerBasic.textpos_changed
textpos_changed(stk, pos) == HRet(stk, "")

----------------------------------------------------------------------------
(* SAXParser *)

\* the parser, its lexer and its handler while run() executes; err is the
\* exception in flight (None while there is none)
ParserInit ==
    [lx |-> LexerInit, curr |-> Lexeme(TextPos(1, 0), "UNKNOWN", << >>, "LT_UNKNOWN", "NT_UNKNOWN"),
     events |-> << >>, stack |-> << >>, err |-> None]

failed(P) == P.err.kind = "error"

\* a call of a handler method by the parser: ev is the callback, h what the
\* method handed back
call_handler(P, ev, h) ==
    [P EXCEPT !.events = Append(@, ev), !.stack = h.stack,
              !.err = IF h.exc = "" THEN None ELSE PyError(h.exc)]

\* SAXParser._curr_pos: the lexer's TextPos object itself
curr_pos(P) == make_copy(P.lx)

\* raise JSONParserError(self._curr_pos(), msg_id)
raise_at_curr_pos(P, msg_id) == [P EXCEPT !.err = JSONParserError(curr_pos(P), msg_id, TRUE)]

\* SAXParser._curr_token
curr_token(P) == IF P.curr.kind = "none" THEN "UNKNOWN" ELSE P.curr.token

\* SAXParser._curr_text
curr_text(P) == P.curr.text

\* SAXParser.eof
parser_eof(P) == P.lx.eof

\* what SAXParser.next_lexeme hands back: the parser after it, the value returned
PRet(P, ok) == [p |-> P, ok |-> ok]

\* SAXParser.next_lexeme, were it to notify the position the lexer had
\* before the lexeme
SAXParser_next_lexeme_notifying_before(P) ==
    LET read(r) ==
            IF r.out.kind = "error"
            THEN PRet([P EXCEPT !.lx = r.lx, !.err = r.out], FALSE)
            ELSE IF r.out.kind # "none"
            THEN PRet(call_handler([P EXCEPT !.lx = r.lx, !.curr = r.out],
                                   Event("textpos_changed", "", << >>, 0, make_copy(P.lx)),
                                   textpos_changed(P.stack, make_copy(P.lx))), TRUE)
            ELSE PRet([P EXCEPT !.lx = r.lx, !.curr = r.out], FALSE)
    IN  read(next_lexeme(P.lx))

\* SAXParser.next_lexeme
SAXParser_next_lexeme(P) ==
    LET read(r) ==
            IF r.out.kind = "error"
            THEN PRet([P EXCEPT !.lx = r.lx, !.err = r.out], FALSE)
            ELSE IF r.out.kind # "none"
            THEN PRet(call_handler([P EXCEPT !.lx = r.lx, !.curr = r.out],
                                   Event("textpos_changed", "", << >>, 0, make_copy(r.lx)),
                                   textpos_changed(P.stack, make_copy(r.lx))), TRUE)
            ELSE PRet([P EXCEPT !.lx = r.lx, !.curr = r.out], FALSE)
    IN  read(next_lexeme(P.lx))

\* SAXParser.parse_literal
parse_literal(P) ==
    IF curr_token(P) \in {"LITERAL_FALSE", "LITERAL_NULL", "LITERAL_TRUE"}
    THEN call_handler(P, Event("on_literal", P.curr.literal_kind, curr_text(P), 0, TextPos(0, 0)),
                      on_literal(P.stack, P.curr.literal_kind))
    ELSE raise_at_curr_pos(P, ERR_EXPECTED_LITERAL)

\* parse_number, were it to hand on the kind the lexer gave the number
parse_number_with_lexeme_kind(P) ==
    IF curr_token(P) \in {"NUMBER_DECIMAL", "NUMBER_FLOAT", "NUMBER_INT"}
    THEN LET kind == P.curr.numeric_kind IN
         call_handler(P, Event("on_number", kind, curr_text(P), 0, TextPos(0, 0)),
                      on_number(P.stack, kind, curr_text(P)))
    ELSE raise_at_curr_pos(P, ERR_EXPECTED_NUMBER)

\* SAXParser.parse_number
parse_number(P) ==
    IF curr_token(P) \in {"NUMBER_DECIMAL", "NUMBER_FLOAT", "NUMBER_INT"}
    THEN LET kind == IF curr_token(P) = "NUMBER_INT" THEN "NT_INTEGER" ELSE "NT_FLOAT" IN
         call_handler(P, Event("on_number", kind, curr_text(P), 0, TextPos(0, 0)),
                      on_number(P.stack, kind, curr_text(P)))
    ELSE raise_at_curr_pos(P, ERR_EXPECTED_NUMBER)

\* SAXParser.parse_string
parse_string(P) ==
    IF curr_token(P) = "STRING"
    THEN call_handler(P, Event("on_string", "", curr_text(P), 0, TextPos(0, 0)),
                      on_string(P.stack, curr_text(P)))
    ELSE raise_at_curr_pos(P, ERR_EXPECTED_STRING)

RECURSIVE parse_value(_)
RECURSIVE parse_array_items(_, _)
RECURSIVE parse_object_members(_, _)

\* parse_array_items_following, were a ']' let through after a separator
parse_array_items_following_or_end(n, element_count) ==
    IF failed(n.p) THEN PRet(n.p, element_count)
    ELSE IF ~n.ok THEN PRet(raise_at_curr_pos(n.p, ERR_EXPECTED_ARRAY_ITEM), element_count)
    ELSE IF curr_token(n.p) = "END_ARRAY" THEN PRet(n.p, element_count)
    ELSE parse_array_items(n.p, element_count)

\* SAXParser.parse_array_items after the next_lexeme() that follows a
\* separator
parse_array_items_following(n, element_count) ==
    IF failed(n.p) THEN PRet(n.p, element_count)
    ELSE IF ~n.ok THEN PRet(raise_at_curr_pos(n.p, ERR_EXPECTED_ARRAY_ITEM), element_count)
    ELSE parse_array_items(n.p, element_count)

\* SAXParser.parse_array_items after the next_lexeme() that follows an item
parse_array_items_next(n, element_count) ==
    IF failed(n.p) THEN PRet(n.p, element_count) ELSE
    LET is_next_item == n.ok /\ curr_token(n.p) = "VALUE_SEPARATOR" IN
    IF ~is_next_item THEN PRet(n.p, element_count)
    ELSE parse_array_items_following(SAXParser_next_lexeme(n.p), element_count)

\* parse_array_items_parsed, were the parser to go on after the exception of
\* a callback
parse_array_items_parsed_going_on(P, element_count) ==
    parse_array_items_next(SAXParser_next_lexeme(P), element_count + 1)

\* SAXParser.parse_array_items after parse_value()
parse_array_items_parsed(P, element_count) ==
    IF failed(P) THEN PRet(P, element_count)
    ELSE parse_array_items_next(SAXParser_next_lexeme(P), element_count + 1)

\* SAXParser.parse_array_items: one round of the while loop and those after
\* it; .ok of the value handed back is element_count
parse_array_items(P, element_count) ==
    parse_array_items_parsed(parse_value(P), element_count)

\* SAXParser.parse_array after the items
parse_array_end(items) ==
    IF failed(items.p) THEN items.p
    ELSE IF curr_token(items.p) = "END_ARRAY"
    THEN call_handler(items.p, Event("on_end_array", "", << >>, items.ok, TextPos(0, 0)),
                      on_end_array(items.p.stack, items.ok))
    ELSE raise_at_curr_pos(items.p, ERR_UNCLOSED_ARRAY)

\* parse_array_opened, were it to count the elements from one
parse_array_opened_count_from_one(n) ==
    IF failed(n.p) THEN n.p
    ELSE parse_array_end(IF n.ok /\ curr_token(n.p) # "END_ARRAY"
                         THEN parse_array_items(n.p, 1)
                         ELSE PRet(n.p, 0))

\* SAXParser.parse_array after the next_lexeme() that follows the bracket
parse_array_opened(n) ==
    IF failed(n.p) THEN n.p
    ELSE parse_array_end(IF n.ok /\ curr_token(n.p) # "END_ARRAY"
                         THEN parse_array_items(n.p, 0)
                         ELSE PRet(n.p, 0))

\* SAXParser.parse_array after on_begin_array()
parse_array_begun(P) ==
    IF failed(P) THEN P ELSE parse_array_opened(SAXParser_next_lexeme(P))

\* SAXParser.parse_array
parse_array(P) ==
    IF curr_token(P) # "BEGIN_ARRAY" THEN raise_at_curr_pos(P, ERR_EXPECTED_ARRAY)
    ELSE parse_array_begun(call_handler(P, Event("on_begin_array", "", << >>, 0, TextPos(0, 0)),
                                        on_begin_array(P.stack)))

\* SAXParser.parse_object_members after the next_lexeme() that follows a
\* separator
parse_object_members_following(n, member_count) ==
    IF failed(n.p) THEN PRet(n.p, member_count)
    ELSE IF ~n.ok THEN PRet(raise_at_curr_pos(n.p, ERR_EXPECTED_MEMBER_NAME), member_count)
    ELSE parse_object_members(n.p, member_count)

\* SAXParser.parse_object_members after the next_lexeme() that follows a
\* member's value
parse_object_members_next(n, member_count) ==
    IF failed(n.p) THEN PRet(n.p, member_count) ELSE
    LET is_next_member == n.ok /\ curr_token(n.p) = "VALUE_SEPARATOR" IN
    IF ~is_next_member THEN PRet(n.p, member_count)
    ELSE parse_object_members_following(SAXParser_next_lexeme(n.p), member_count)

\* SAXParser.parse_object_members after parse_value()
parse_object_members_parsed(P, member_count) ==
    IF failed(P) THEN PRet(P, member_count)
    ELSE parse_object_members_next(SAXParser_next_lexeme(P), member_count)

\* parse_object_members_value, were a member without a value let through
parse_object_members_value_or_none(n, member_count) ==
    IF failed(n.p) THEN PRet(n.p, member_count)
    ELSE IF ~n.ok THEN PRet(n.p, member_count)
    ELSE parse_object_members_parsed(parse_value(n.p), member_count)

\* SAXParser.parse_object_members after the next_lexeme() that follows the
\* name separator
parse_object_members_value(n, member_count) ==
    IF failed(n.p) THEN PRet(n.p, member_count)
    ELSE IF ~n.ok THEN PRet(raise_at_curr_pos(n.p, ERR_EXPECTED_VALUE), member_count)
    ELSE parse_object_members_parsed(parse_value(n.p), member_count)

\* SAXParser.parse_object_members after the next_lexeme() that follows the
\* name
parse_object_members_separator(n, member_count) ==
    IF failed(n.p) THEN PRet(n.p, member_count)
    ELSE IF ~n.ok \/ curr_token(n.p) # "NAME_SEPARATOR"
    THEN PRet(raise_at_curr_pos(n.p, ERR_EXPECTED_NAME_SEPARATOR), member_count)
    ELSE parse_object_members_value(SAXParser_next_lexeme(n.p), member_count)

\* SAXParser.parse_object_members after on_member_name()
parse_object_members_named(P, member_count) ==
    IF failed(P) THEN PRet(P, member_count)
    ELSE parse_object_members_separator(SAXParser_next_lexeme(P), member_count)

\* SAXParser.parse_object_members: one round of the while loop and those
\* after it; .ok of the value handed back is member_count
parse_object_members(P, member_count) ==
    IF curr_token(P) # "STRING"
    THEN PRet(raise_at_curr_pos(P, ERR_EXPECTED_MEMBER_NAME), member_count)
    ELSE parse_object_members_named(
             call_handler(P, Event("on_member_name", "", curr_text(P), 0, TextPos(0, 0)),
                          on_member_name(P.stack, curr_text(P))),
             member_count + 1)

\* parse_object_end, were the unclosed object reported where the parser is
parse_object_end_at_curr_pos(members, start_pos) ==
    IF failed(members.p) THEN members.p
    ELSE IF curr_token(members.p) = "END_OBJECT"
    THEN call_handler(members.p, Event("on_end_object", "", << >>, members.ok, TextPos(0, 0)),
                      on_end_object(members.p.stack, members.ok))
    ELSE raise_at_curr_pos(members.p, ERR_UNCLOSED_OBJECT)

\* SAXParser.parse_object after the members
parse_object_end(members, start_pos) ==
    IF failed(members.p) THEN members.p
    ELSE IF curr_token(members.p) = "END_OBJECT"
    THEN call_handler(members.p, Event("on_end_object", "", << >>, members.ok, TextPos(0, 0)),
                      on_end_object(members.p.stack, members.ok))
    ELSE [members.p EXCEPT !.err = JSONParserError(start_pos, ERR_UNCLOSED_OBJECT, FALSE)]

\* SAXParser.parse_object after the next_lexeme() that follows the brace
parse_object_opened(n, start_pos) ==
    IF failed(n.p) THEN n.p
    ELSE parse_object_end(IF n.ok /\ curr_token(n.p) # "END_OBJECT"
                          THEN parse_object_members(n.p, 0)
                          ELSE PRet(n.p, 0),
                          start_pos)

\* SAXParser.parse_object after on_begin_object()
parse_object_begun(P, start_pos) ==
    IF failed(P) THEN P ELSE parse_object_opened(SAXParser_next_lexeme(P), start_pos)

\* SAXParser.parse_object
parse_object(P) ==
    IF curr_token(P) # "BEGIN_OBJECT" THEN raise_at_curr_pos(P, ERR_EXPECTED_OBJECT)
    ELSE parse_object_begun(call_handler(P, Event("on_begin_object", "", << >>, 0, TextPos(0, 0)),
                                         on_begin_object(P.stack)),
                            curr_pos(P))

\* SAXParser.parse_value
parse_value(P) ==
    IF curr_token(P) = "BEGIN_ARRAY" THEN parse_array(P)
    ELSE IF curr_token(P) = "BEGIN_OBJECT" THEN parse_object(P)
    ELSE IF curr_token(P) \in {"LITERAL_FALSE", "LITERAL_NULL", "LITERAL_TRUE"} THEN parse_literal(P)
    ELSE IF curr_token(P) \in {"NUMBER_DECIMAL", "NUMBER_FLOAT", "NUMBER_INT"} THEN parse_number(P)
    ELSE IF curr_token(P) = "STRING" THEN parse_string(P)
    ELSE raise_at_curr_pos(P, ERR_EXPECTED_VALUE_BUT_FOUND_FMT)

\* SAXParser.parse_doc after the next_lexeme() made when the stream has not
\* ended
parse_doc_unexpected(n) ==
    IF failed(n.p) THEN n.p
    ELSE IF n.ok THEN raise_at_curr_pos(n.p, ERR_UNEXPECTED_LEXEME_FMT)
    ELSE raise_at_curr_pos(n.p, ERR_EXPECTED_EOF)

\* SAXParser.parse_doc after the next_lexeme() that follows the value
parse_doc_trailing(n) ==
    IF failed(n.p) THEN n.p
    ELSE IF parser_eof(n.p) THEN n.p
    ELSE parse_doc_unexpected(SAXParser_next_lexeme(n.p))

\* SAXParser.parse_doc after parse_value()
parse_doc_parsed(P) ==
    IF failed(P) THEN P ELSE parse_doc_trailing(SAXParser_next_lexeme(P))

\* parse_doc_first, were the document to be a string
parse_doc_first_reading_string(n) ==
    IF failed(n.p) THEN n.p
    ELSE IF ~n.ok /\ parser_eof(n.p) THEN n.p
    ELSE parse_doc_parsed(IF n.ok THEN parse_string(n.p) ELSE n.p)

\* SAXParser.parse_doc after the first next_lexeme()
parse_doc_first(n) ==
    IF failed(n.p) THEN n.p
    ELSE IF ~n.ok /\ parser_eof(n.p) THEN n.p
    ELSE parse_doc_parsed(IF n.ok THEN parse_value(n.p) ELSE n.p)

\* SAXParser.parse_doc
parse_doc(P) == parse_doc_first(SAXParser_next_lexeme(P))

\* SAXParser.run
run(P) == parse_doc(P)

\* SAXHandlerBasic.result: the stack after the read, the value read, the
\* exception raised
handler_result(stk) ==
    IF Len(stk) = 0 THEN [stack |-> stk, value |-> PyNone, exc |-> ""]
    ELSE IF Len(stk) = 1 THEN [stack |-> PopN(stk, 1), value |-> stk[1], exc |-> ""]
    ELSE [stack |-> stk, value |-> PyNone, exc |-> "JSONError"]

----------------------------------------------------------------------------
(* The operations *)

MaxExtraCalls == 1

DocNone == <<"none">>
NotRead == <<"unread", 0>>

\* a Lexer (and a SAXParser with a SAXHandlerBasic) constructed over a reader
Start(inp, d, n) ==
    /\ input = inp
    /\ doc = d
    /\ docLen = n
    /\ lexer = LexerInit
    /\ lexemes = << >>
    /\ status = "idle"
    /\ raised = None
    /\ curr = ParserInit.curr
    /\ events = << >>
    /\ stack = << >>
    /\ result = NotRead

\* the calls of next_lexeme so far that returned None or raised
Ended == {i \in 1..Len(lexemes) : lexemes[i].kind # "lexeme"}

\* a caller calls Lexer.next_lexeme()
LexerNextLexeme ==
    /\ status = "idle"
    /\ Cardinality(Ended) <= MaxExtraCalls
    /\ LET r == next_lexeme(lexer) IN
        /\ lexer' = r.lx
        /\ lexemes' = Append(lexemes, r.out)
    /\ UNCHANGED <<input, doc, docLen, status, raised, curr, events, stack, result>>

\* a caller calls Lexer.next_char()
LexerNextChar ==
    /\ status = "idle"
    /\ lexer' = next_char(lexer)
    /\ UNCHANGED <<input, doc, docLen, lexemes, status, raised, curr, events, stack, result>>

\* a caller calls SAXParser.run()
ParserRun ==
    /\ status = "idle"
    /\ lexemes = << >>
    /\ LET ran(P) ==
            /\ lexer' = P.lx
            /\ curr' = P.curr
            /\ events' = P.events
            /\ stack' = P.stack
            /\ raised' = P.err
            /\ status' = IF failed(P) THEN "raised" ELSE "returned"
       IN  ran(run([ParserInit EXCEPT !.lx = lexer]))
    /\ UNCHANGED <<input, doc, docLen, lexemes, result>>

\* a caller reads SAXHandlerBasic.result after run()
ReadResult ==
    /\ status # "idle"
    /\ result = NotRead
    /\ LET r == handler_result(stack) IN
        /\ stack' = r.stack
        /\ result' = IF r.exc = "" THEN r.value ELSE <<"raise", r.exc>>
    /\ UNCHANGED <<input, doc, docLen, lexer, lexemes, status, raised, curr, events>>

----------------------------------------------------------------------------
(* Numbers: the lexer over every short text of number characters *)

MaxNumLen == 5

NumChars == {Ord["-"], Ord["+"], Ord["."], Ord["0"], Ord["1"], Ord["e"], Ord[" "], Ord[","]}

\* the texts over a set of characters of length up to n
RECURSIVE Texts(_, _)
Texts(chars, n) ==
    IF n = 0 THEN {<< >>}
    ELSE LET shorter == Texts(chars, n - 1) IN
         shorter \cup {Append(t, ch) : t \in {u \in shorter : Len(u) = n - 1}, ch \in chars}

InitNum == \E inp \in Texts(NumChars, MaxNumLen) : Start(inp, DocNone, 0)

NextNum == LexerNextLexeme

SpecNum == InitNum /\ [][NextNum]_vars

----------------------------------------------------------------------------
(* What the claims about numbers speak of *)

IsDelimiter(ch) == is_whitespace(<<ch>>) \/ is_structural(<<ch>>)
IsNumberToken(r) == r.kind = "lexeme" /\ r.token \in {"NUMBER_INT", "NUMBER_DECIMAL", "NUMBER_FLOAT"}
IsInvalidNumber(r) == r.kind = "error" /\ r.exc = "JSONParserError" /\ r.msg_id = ERR_INVALID_NUMBER

\* the number of characters of t from the i-th on that are ASCII digits
RECURSIVE AsciiRun(_, _)
AsciiRun(t, i) == IF i <= Len(t) /\ t[i] \in 48..57 THEN 1 + AsciiRun(t, i + 1) ELSE 0

\* the number of characters of t from the i-th on up to the next delimiter
RECURSIVE TokenRun(_, _)
TokenRun(t, i) == IF i <= Len(t) /\ ~IsDelimiter(t[i]) THEN 1 + TokenRun(t, i + 1) ELSE 0

\* t read by the grammar -?(0|[1-9][0-9]*)(.[0-9]+)?([eE][+-]?[0-9]+)?
JsonNumber(t) ==
    LET i0 == IF t # << >> /\ t[1] = Ord["-"] THEN 2 ELSE 1
        il == AsciiRun(t, i0)
        i1 == i0 + il
        frac == i1 <= Len(t) /\ t[i1] = Ord["."]
        fl == IF frac THEN AsciiRun(t, i1 + 1) ELSE 0
        i2 == IF frac THEN i1 + 1 + fl ELSE i1
        exp == i2 <= Len(t) /\ t[i2] \in {Ord["e"], Ord["E"]}
        sign == exp /\ i2 + 1 <= Len(t) /\ t[i2 + 1] \in {Ord["+"], Ord["-"]}
        i3 == IF exp THEN (IF sign THEN i2 + 2 ELSE i2 + 1) ELSE i2
        el == IF exp THEN AsciiRun(t, i3) ELSE 0
    IN  [ok |-> /\ il >= 1
                /\ (t[i0] = Ord["0"] => il = 1)
                /\ (frac => fl >= 1)
                /\ (exp => el >= 1)
                /\ i3 + el = Len(t) + 1,
         frac |-> frac, exp |-> exp]

\* the first token of the input when the input starts with one
FirstToken == SubSeq(input, 1, TokenRun(input, 1))

\* C4: when the input starts with a number of the JSON grammar that runs up
\* to the end of the stream or to a whitespace or structural character, the
\* first call of next_lexeme returns a lexeme whose text is that number and
\* whose kind is NUMBER_INT without fraction and exponent, NUMBER_DECIMAL with
\* a fraction and no exponent, NUMBER_FLOAT with an exponent
C4_NumberLexeme ==
    (Len(lexemes) >= 1 /\ JsonNumber(FirstToken).ok) =>
        /\ lexemes[1].kind = "lexeme"
        /\ lexemes[1].text = FirstToken
        /\ lexemes[1].token = (IF JsonNumber(FirstToken).exp THEN "NUMBER_FLOAT"
                               ELSE IF JsonNumber(FirstToken).frac THEN "NUMBER_DECIMAL"
                               ELSE "NUMBER_INT")

\* a number with a signed exponent, followed by a delimiter, has been lexed
C4_Witness ==
    /\ Len(lexemes) >= 1
    /\ JsonNumber(FirstToken).ok
    /\ JsonNumber(FirstToken).exp
    /\ Len(FirstToken) < Len(input)
    /\ Ord["-"] \in {FirstToken[i] : i \in 2..Len(FirstToken)}

\* the number of '-' in a text
RECURSIVE Dashes(_)
Dashes(t) == IF t = << >> THEN 0 ELSE (IF t[1] = Ord["-"] THEN 1 ELSE 0) + Dashes(Tail(t))

\* the characters the lexer has consumed for its latest lexeme (the inputs
\* of this specification have one line, so a column is an index)
Consumed ==
    SubSeq(input, lexemes[Len(lexemes)].pos.col,
           IF lexer.c_accepted THEN lexer.rd ELSE lexer.rd - 1)

\* C5: a '-' that is neither the first character of a number nor right
\* after the exponent marker is rejected, so every '-' the lexer consumed for
\* a number token is in the token's text
C5_DashNeverDropped ==
    (lexemes # << >> /\ IsNumberToken(lexemes[Len(lexemes)])) =>
        Dashes(Consumed) = Dashes(lexemes[Len(lexemes)].text)

\* the integer part of a number text is a '0' followed by another digit
LeadingZero(t) ==
    LET i0 == IF t # << >> /\ t[1] = Ord["-"] THEN 2 ELSE 1 IN
    /\ i0 + 1 <= Len(t)
    /\ t[i0] = Ord["0"]
    /\ t[i0 + 1] \in 48..57

\* C6: the lexer returns no number token whose integer part is a '0'
\* followed by another digit, with or without a leading '-'
C6_NoLeadingZero ==
    \A i \in 1..Len(lexemes) : IsNumberToken(lexemes[i]) => ~LeadingZero(lexemes[i].text)

\* C7: the lexer returns no number token in which an exponent marker has no
\* digit before it
C7_ExponentAfterDigit ==
    \A i \in 1..Len(lexemes) : IsNumberToken(lexemes[i]) =>
        \A k \in 1..Len(lexemes[i].text) :
            <<lexemes[i].text[k]>> \in EXP_CHARS =>
                \E j \in 1..(k - 1) : lexemes[i].text[j] \in 48..57

\* the numeric state machine fed the input from its i-th character on, up to
\* the character it rejects (ended: the stream ended first)
RECURSIVE ScanFrom(_, _)
ScanFrom(i, np) ==
    IF i > Len(input) THEN [stop |-> Len(input), ended |-> TRUE, np |-> np]
    ELSE LET r == read_char(np, <<input[i]>>) IN
         IF r.ok THEN ScanFrom(i + 1, r.np)
         ELSE [stop |-> i, ended |-> FALSE, np |-> r.np]

\* the scan of a number that starts the input ends without a classification,
\* or on a rejected character that is no delimiter
BadNumberScan ==
    /\ input # << >>
    /\ <<input[1]>> \in DEC_DIGITS_S
    /\ LET s == ScanFrom(1, NumericParser) IN
        \/ s.np.type = "NT_UNKNOWN"
        \/ ~s.ended /\ ~IsDelimiter(input[s.stop])

\* C8: when the scan of a number ends without a classification or on a
\* rejected character that is no delimiter, next_lexeme raises the
\* invalid-number error at the lexer's current position: that of the rejected
\* character, or of the last character read when the stream ended
C8_InvalidNumberPos ==
    (Len(lexemes) >= 1 /\ BadNumberScan) =>
        /\ IsInvalidNumber(lexemes[1])
        /\ lexemes[1].pos = TextPos(1, ScanFrom(1, NumericParser).stop)

\* an invalid number has been reported past its first character
C8_Witness ==
    /\ Len(lexemes) >= 1
    /\ BadNumberScan
    /\ IsInvalidNumber(lexemes[1])
    /\ lexemes[1].pos = TextPos(1, 3)
    /\ input[2] = Ord["e"]
    /\ ~ScanFrom(1, NumericParser).ended

----------------------------------------------------------------------------
(* Strings: the lexer over an opening quote followed by a few fragments *)

MaxFrags == 4

StrFrags ==
    {Chr("\""), Chr("a"), Chr("\\"), Chr("u"), Chr("n"), Chr("b"), Chr("f"),
     Chr("r"), Chr("t"), Chr("/"), Chr("G"), Chr("\n"),
     Chr("ARABIC-INDIC DIGIT THREE"), Chr("SUPERSCRIPT TWO"),
     Str(<<"\\", "u", "0", "0">>), Str(<<"4", "1">>)}

\* the texts made of up to n of the fragments
RECURSIVE FragTexts(_, _)
FragTexts(frags, n) ==
    IF n = 0 THEN {<< >>}
    ELSE LET shorter == FragTexts(frags, n - 1) IN
         shorter \cup {t \o f : t \in shorter, f \in frags}

InitStr ==
    \E t \in FragTexts(StrFrags, MaxFrags - 1), f \in StrFrags \cup {<< >>} :
        Start(Chr("\"") \o t \o f, DocNone, 0)

NextStr == LexerNextLexeme

SpecStr == InitStr /\ [][NextStr]_vars

----------------------------------------------------------------------------
(* What the claims about strings speak of *)

\* the character an escape letter stands for, 0 when it is no escape letter
Unescaped(ch) ==
    CASE ch = 34 -> 34
      [] ch = 92 -> 92
      [] ch = 47 -> 47
      [] ch = 98 -> 8
      [] ch = 102 -> 12
      [] ch = 110 -> 10
      [] ch = 114 -> 13
      [] ch = 116 -> 9
      [] OTHER -> 0

\* the value of a hexadecimal digit 0-9 a-f A-F, -1 for any other character
HexDigit(ch) ==
    IF ch \in 48..57 THEN ch - 48
    ELSE IF ch \in 97..102 THEN ch - 87
    ELSE IF ch \in 65..70 THEN ch - 55
    ELSE -1

\* t has four hexadecimal digits from its i-th character on
FourHex(t, i) == i + 3 <= Len(t) /\ \A k \in i..(i + 3) : HexDigit(t[k]) >= 0

\* the string literal that opens at t[1], read from the i-th character on:
\* how it ends ("closed", "open", "escape": an escape that is not well-formed),
\* where (the closing quote, or the backslash of that escape) and the
\* characters decoded up to there
RECURSIVE Decode(_, _, _)
Decode(t, i, acc) ==
    IF i > Len(t) THEN [end |-> "open", at |-> i, text |-> acc]
    ELSE IF t[i] = 34 THEN [end |-> "closed", at |-> i, text |-> acc]
    ELSE IF t[i] # 92 THEN Decode(t, i + 1, Append(acc, t[i]))
    ELSE IF i + 1 > Len(t) THEN [end |-> "open", at |-> i, text |-> acc]
    ELSE IF Unescaped(t[i + 1]) # 0 THEN Decode(t, i + 2, Append(acc, Unescaped(t[i + 1])))
    ELSE IF t[i + 1] = 117 /\ FourHex(t, i + 2)
    THEN Decode(t, i + 6, Append(acc, 4096 * HexDigit(t[i + 2]) + 256 * HexDigit(t[i + 3])
                                      + 16 * HexDigit(t[i + 4]) + HexDigit(t[i + 5])))
    ELSE [end |-> "escape", at |-> i, text |-> acc]

\* the position of the i-th character of the input: the line is 1 + the
\* number of LF before it, the column its distance from the last of them
PosOf(i) ==
    LET lfs == {k \in 1..(i - 1) : input[k] = 10}
        last == IF lfs = {} THEN 0 ELSE CHOOSE k \in lfs : \A j \in lfs : j <= k
    IN  TextPos(1 + Cardinality(lfs), i - last)

\* C9: an input that opens a string, with well-formed escapes only up to an
\* unescaped closing quote, gives a STRING lexeme positioned at the opening
\* quote whose text is the characters between the quotes, each escape
\* replaced by the character it stands for and every other character copied
C9_StringDecoded ==
    (Len(lexemes) >= 1 /\ input[1] = 34 /\ Decode(input, 2, << >>).end = "closed") =>
        lexemes[1] = Lexeme(TextPos(1, 1), "STRING", Decode(input, 2, << >>).text,
                            "LT_UNKNOWN", "NT_UNKNOWN")

\* a string with a \u escape followed by more characters has been lexed
C9_Witness ==
    /\ Len(lexemes) >= 1
    /\ Decode(input, 2, << >>).end = "closed"
    /\ Len(input) >= 9
    /\ SubSeq(input, 2, 3) = Str(<<"\\", "u">>)
    /\ lexemes[1].kind = "lexeme"
    /\ Len(lexemes[1].text) = 2

\* the first escape of the string that is not well-formed is a \u escape
BadUEscape ==
    LET d == Decode(input, 2, << >>) IN
    /\ d.end = "escape"
    /\ input[d.at + 1] = 117

IsUnallowedEscape(r) == r.kind = "error" /\ r.exc = "JSONParserError" /\ r.msg_id = ERR_UNALLOWED_ESCAPE_SEQ

TakenForHex(ch) == HexDigit(ch) >= 0 \/ ch \in 1632..1641 \/ ch = 178

IsUnclosedString(r) == r.kind = "error" /\ r.exc = "JSONParserError" /\ r.msg_id = ERR_UNCLOSED_STRING

\* the stream ends before the closing quote and after well-formed escapes
\* only; a backslash may be the last character
OpenString == Decode(input, 2, << >>).end = "open"

\* the stream ends within the four characters after the 'u' of a \u escape,
\* with hexadecimal digits only between the 'u' and the end
TruncatedUEscape ==
    LET d == Decode(input, 2, << >>) IN
    /\ BadUEscape
    /\ d.at + 5 > Len(input)
    /\ \A k \in (d.at + 2)..Len(input) : HexDigit(input[k]) >= 0

\* C11 as stated: when the stream ends before an unescaped closing quote and
\* every complete escape before the end is well-formed, next_lexeme raises the
\* unclosed-string error at the position of the last character read
C11_UnclosedWhereverItEnds ==
    (Len(lexemes) >= 1 /\ (OpenString \/ TruncatedUEscape)) =>
        /\ IsUnclosedString(lexemes[1])
        /\ lexemes[1].pos = PosOf(Len(input))

\* C11 as amended: when the stream ends before an unescaped closing quote,
\* after well-formed escapes only and not within a \u escape (it may end
\* right after a backslash), next_lexeme raises the unclosed-string error at
\* the position of the last character read
C11_UnclosedString ==
    (Len(lexemes) >= 1 /\ OpenString) =>
        /\ IsUnclosedString(lexemes[1])
        /\ lexemes[1].pos = PosOf(Len(input))

\* an unclosed string that ends with a backslash on its second line has been
\* reported
C11_Witness ==
    /\ Len(lexemes) >= 1
    /\ OpenString
    /\ input[Len(input)] = 92
    /\ Decode(input, 2, << >>).at = Len(input)
    /\ IsUnclosedString(lexemes[1])
    /\ lexemes[1].pos.line = 2
    /\ lexemes[1].pos.col > 1

IsUnrecognizedEscape(r) ==
    r.kind = "error" /\ r.exc = "JSONParserError" /\ r.msg_id = ERR_UNRECOGNIZED_ESCAPE_SEQ_FMT

\* the first escape of the string that is not well-formed is a backslash
\* followed by a character other than " \ / b f n r t u
BadEscapeLetter ==
    LET d == Decode(input, 2, << >>) IN
    /\ d.end = "escape"
    /\ input[d.at + 1] # 117

\* C12: inside a string a backslash followed by a character other than
\* " \ / b f n r t u makes next_lexeme raise the unrecognized-escape-sequence
\* error at the position of that backslash, and no lexeme is returned
C12_UnrecognizedEscape ==
    (Len(lexemes) >= 1 /\ BadEscapeLetter) =>
        /\ IsUnrecognizedEscape(lexemes[1])
        /\ lexemes[1].pos = PosOf(Decode(input, 2, << >>).at)
        /\ lexemes[1].token # "STRING"

\* a backslash before a 'G', the second character on the second line of a
\* string, has been reported
C12_Witness ==
    /\ Len(lexemes) >= 1
    /\ BadEscapeLetter
    /\ IsUnrecognizedEscape(lexemes[1])
    /\ input[Decode(input, 2, << >>).at + 1] = 71
    /\ lexemes[1].pos = TextPos(2, 2)

----------------------------------------------------------------------------
(* Tokens: the lexer over a few tokens, whitespace and other characters *)

MaxToks == 4

TokFrags ==
    {Chr(" "), Chr("\n"), Chr("\r"), Chr("\t"), Chr("FF"), Chr("x"),
     Chr("ARABIC-INDIC DIGIT THREE"), Chr("["), Chr(","), Chr("1"), Chr("t"),
     Str(<<"t", "r", "u", "e">>), Str(<<"f", "a", "l", "s", "e">>),
     Str(<<"n", "u", "l", "l">>), Str(<<"\"", "a", "\"">>)}

InitTok ==
    \E t \in FragTexts(TokFrags, MaxToks - 1), f \in TokFrags \cup {<< >>} :
        Start(t \o f, DocNone, 0)

NextTok == LexerNextLexeme

SpecTok == InitTok /\ [][NextTok]_vars

----------------------------------------------------------------------------
(* What the claims about tokens speak of *)

\* the index of the character a call of next_lexeme starts from: the one
\* after the last character read when that one belongs to a token already
\* returned, else the last character read
ScanStart == IF lexer.c_accepted \/ lexer.initial THEN lexer.rd + 1 ELSE lexer.rd

\* the index of the first character from the i-th on that is not a space, a
\* tab, a CR or an LF (Len(input) + 1 when there is none)
RECURSIVE FirstNonBlank(_)
FirstNonBlank(i) ==
    IF i <= Len(input) /\ input[i] \in {32, 9, 13, 10} THEN FirstNonBlank(i + 1) ELSE i

\* where the token the next call of next_lexeme is to read starts
TokAt == FirstNonBlank(ScanStart)

\* a call of next_lexeme is made after calls that all returned lexemes
\* (or as the first call)
CallBetweenTokens == lexemes' # lexemes /\ Ended = {}

\* what that call returned or raised
Returned == lexemes'[Len(lexemes')]

IsInvalidLiteral(r) == r.kind = "error" /\ r.exc = "JSONParserError" /\ r.msg_id = ERR_INVALID_LITERAL_FMT

\* the maximal run of characters from the i-th on up to the next whitespace,
\* structural character or end of stream
RunAt(i) == SubSeq(input, i, i + TokenRun(input, i) - 1)

\* the literal a run of characters spells
LiteralOf(t) ==
    IF t = Str(<<"f", "a", "l", "s", "e">>) THEN "LITERAL_FALSE"
    ELSE IF t = Str(<<"n", "u", "l", "l">>) THEN "LITERAL_NULL"
    ELSE IF t = Str(<<"t", "r", "u", "e">>) THEN "LITERAL_TRUE"
    ELSE "UNKNOWN"

\* C13: a token that starts with 'f', 'n' or 't' is the maximal run of
\* characters up to the next whitespace, structural character or end of
\* stream; next_lexeme returns LITERAL_FALSE, LITERAL_NULL or LITERAL_TRUE
\* when the run is exactly "false", "null" or "true", and for every other run
\* raises the invalid-literal error at the position of the run's first
\* character
C13_LiteralRun ==
    [][(CallBetweenTokens /\ TokAt <= Len(input) /\ input[TokAt] \in {102, 110, 116}) =>
        IF LiteralOf(RunAt(TokAt)) # "UNKNOWN"
        THEN /\ Returned.kind = "lexeme"
             /\ Returned.token = LiteralOf(RunAt(TokAt))
             /\ Returned.text = RunAt(TokAt)
             /\ lexer'.rd >= TokAt + Len(RunAt(TokAt)) - 1
        ELSE /\ IsInvalidLiteral(Returned)
             /\ Returned.pos = PosOf(TokAt)]_vars

\* after a returned lexeme, a run that starts with a literal and goes on has
\* been rejected on the second line
C13_Witness ==
    /\ Len(lexemes) = 2
    /\ lexemes[1].kind = "lexeme"
    /\ IsInvalidLiteral(lexemes[2])
    /\ lexemes[2].pos = TextPos(2, 1)
    /\ Len(input) >= 7
    /\ SubSeq(input, Len(input) - 4, Len(input)) = Str(<<"t", "r", "u", "e", "t">>)

IsUnexpectedChar(r) == r.kind = "error" /\ r.exc = "JSONParserError" /\ r.msg_id = ERR_UNEXPECTED_CHAR_FMT

\* a character a token can start with: '"', a digit, '-', '+', one of
\* [ ] { } : , or one of f n t
TokenStart(ch) ==
    \/ ch = 34
    \/ ch \in 48..57
    \/ ch \in {45, 43}
    \/ ch \in {91, 93, 123, 125, 58, 44}
    \/ ch \in {102, 110, 116}

\* C14: between tokens the lexer skips the characters space, tab, CR and LF
\* and no other; when the first character it does not skip is none a token
\* can start with, next_lexeme raises the unexpected-character error at the
\* position of that character
C14_UnexpectedChar ==
    [][(CallBetweenTokens /\ TokAt <= Len(input) /\ ~TokenStart(input[TokAt])) =>
        /\ IsUnexpectedChar(Returned)
        /\ Returned.pos = PosOf(TokAt)]_vars

\* after a lexeme returned on the second line, a form feed next to it has
\* been rejected
C14_Witness ==
    /\ Len(lexemes) = 2
    /\ lexemes[1].kind = "lexeme"
    /\ IsUnexpectedChar(lexemes[2])
    /\ lexemes[2].pos.line = 2
    /\ lexemes[2].pos.col = 2
    /\ \E i \in 1..Len(input) : input[i] = 12 /\ PosOf(i) = lexemes[2].pos

\* the position a lexeme or an error shows while the lexer is L: its own
\* TextPos, or the lexer's when it holds the lexer's TextPos object
PosSeen(r, L) == IF r.aliased THEN make_copy(L) ELSE r.pos

\* C15: every lexeme next_lexeme returns carries the position of its first
\* character (line 1 + the number of LF before it, column 1 + the number of
\* characters between the preceding LF or the start and it, a CR being a
\* column like any other), and the position the lexemes returned before show
\* does not change when the lexer reads on
C15_LexemePos ==
    [][lexemes' # lexemes =>
        /\ Returned.kind = "lexeme" => PosSeen(Returned, lexer') = PosOf(TokAt)
        /\ \A k \in 1..Len(lexemes) :
                lexemes[k].kind = "lexeme" =>
                    PosSeen(lexemes'[k], lexer') = PosSeen(lexemes[k], lexer)]_vars

\* two lexemes have been returned from the second line, the second, a
\* string, after a CR, and the lexer has read on to the end of the stream
C15_Witness ==
    /\ Len(lexemes) = 3
    /\ Len(input) = 6
    /\ lexemes[1].kind = "lexeme"
    /\ lexemes[1].pos = TextPos(2, 1)
    /\ input[3] = 13
    /\ lexemes[2].token = "STRING"
    /\ lexemes[2].pos = TextPos(2, 3)
    /\ lexemes[3].kind = "none"
    /\ lexer.eof

----------------------------------------------------------------------------
(* Positions: the lexer reading short texts character by character and *)
(* lexeme by lexeme                                                     *)

MaxPosLen == 4

PosChars == {Ord["a"], Ord["\n"], Ord["\r"], Ord[" "], Ord["1"]}

InitPos == \E inp \in Texts(PosChars, MaxPosLen) : Start(inp, DocNone, 0)

NextPos == LexerNextChar \/ LexerNextLexeme

SpecPos == InitPos /\ [][NextPos]_vars

----------------------------------------------------------------------------
(* What the claims about the position tracker speak of *)

\* the indices of the newline characters among the first n of the input
NewlinesIn(n) == {k \in 1..n : input[k] = 10}

\* the index of the last newline among the first n characters, 0 if none
LastNewlineIn(n) ==
    IF NewlinesIn(n) = {} THEN 0
    ELSE CHOOSE k \in NewlinesIn(n) : \A j \in NewlinesIn(n) : j <= k

\* C16 as stated: after the lexer has consumed a prefix of the input, line
\* is 1 plus the number of newline characters consumed and col is the number
\* of characters consumed since the last consumed newline
C16_LinePerConsumedNewline ==
    /\ lexer.line = 1 + Cardinality(NewlinesIn(lexer.rd))
    /\ lexer.col = lexer.rd - LastNewlineIn(lexer.rd)

\* C16 as amended: before any character is consumed the position is line 1,
\* col 0; after the lexer has consumed a prefix of the input, line is 1 plus
\* the number of newline characters consumed before the last consumed
\* character, and col is the number of characters consumed after the last of
\* those newlines: the line increments and the column becomes 1 when the
\* character after a newline is consumed
C16_LinePerPassedNewline ==
    /\ lexer.rd = 0 => make_copy(lexer) = TextPos(1, 0)
    /\ lexer.rd > 0 =>
        /\ lexer.line = 1 + Cardinality(NewlinesIn(lexer.rd - 1))
        /\ lexer.col = lexer.rd - LastNewlineIn(lexer.rd - 1)

\* the lexer has consumed two newlines, the second as the last character
C16_Witness ==
    /\ lexer.rd = Len(input)
    /\ lexer.rd >= 3
    /\ input[lexer.rd] = 10
    /\ Cardinality(NewlinesIn(lexer.rd)) = 2
    /\ input[lexer.rd - 1] # 10
    /\ make_copy(lexer) = TextPos(2, 2)

\* C17: the position a raised JSONParserError carries is a snapshot of where
\* the failure was: no later call of next_lexeme on the same lexer, and no
\* further reading of the stream, changes the line or the column the error
\* shows
C17_ErrorPosSnapshot ==
    [][\A k \in 1..Len(lexemes) :
        (lexemes[k].kind = "error" /\ lexemes[k].exc = "JSONParserError") =>
            PosSeen(lexemes'[k], lexer') = PosSeen(lexemes[k], lexer)]_vars

----------------------------------------------------------------------------
(* Documents: the parser over the text of a document and what follows it *)

MaxNodes == 3

NoPos == TextPos(0, 0)

\* a scalar of a document: its text, its value, the callback it is due
Scalar(text, value, ev) == <<"scalar", text, value, ev>>

Scalars ==
    {Scalar(Str(<<"t", "r", "u", "e">>), PyBool(TRUE),
            Event("on_literal", "LT_TRUE", Str(<<"t", "r", "u", "e">>), 0, NoPos)),
     Scalar(Str(<<"f", "a", "l", "s", "e">>), PyBool(FALSE),
            Event("on_literal", "LT_FALSE", Str(<<"f", "a", "l", "s", "e">>), 0, NoPos)),
     Scalar(Str(<<"n", "u", "l", "l">>), PyNone,
            Event("on_literal", "LT_NULL", Str(<<"n", "u", "l", "l">>), 0, NoPos)),
     Scalar(Str(<<"-", "1", "0">>), PyInt(-10),
            Event("on_number", "NT_INTEGER", Str(<<"-", "1", "0">>), 0, NoPos)),
     Scalar(Str(<<"2", ".", "4", "e", "1">>), PyFloatOf(24, 0),
            Event("on_number", "NT_FLOAT", Str(<<"2", ".", "4", "e", "1">>), 0, NoPos)),
     Scalar(Str(<<"\"", "a", "\\", "n", "\"">>), PyStr(Str(<<"a", "\n">>)),
            Event("on_string", "", Str(<<"a", "\n">>), 0, NoPos))}

Names == {Chr("a"), Chr("b")}

\* the documents of n nodes (a scalar, an array and an object are one node
\* each, and so is every element and member value within them)
RECURSIVE DocsOfSize(_)
RECURSIVE ItemsOfSize(_)
RECURSIVE MembersOfSize(_)
DocsOfSize(n) ==
    (IF n = 1 THEN Scalars ELSE {})
    \cup {<<"array", items>> : items \in ItemsOfSize(n - 1)}
    \cup {<<"object", members>> : members \in MembersOfSize(n - 1)}
ItemsOfSize(m) ==
    IF m = 0 THEN {<< >>}
    ELSE UNION {{<<d>> \o rest : d \in DocsOfSize(k), rest \in ItemsOfSize(m - k)} : k \in 1..m}
MembersOfSize(m) ==
    IF m = 0 THEN {<< >>}
    ELSE UNION {{<<<<name, d>>>> \o rest : name \in Names, d \in DocsOfSize(k),
                                          rest \in MembersOfSize(m - k)} : k \in 1..m}

Docs == UNION {DocsOfSize(n) : n \in 1..MaxNodes}

\* the whitespace written around the structural characters
Spacings == {<< >>, Str(<<" ", "\n">>)}

\* the text of a document
RECURSIVE Write(_, _)
RECURSIVE WriteItems(_, _, _)
RECURSIVE WriteMembers(_, _, _)
Write(d, ws) ==
    IF d[1] = "scalar" THEN d[2]
    ELSE IF d[1] = "array" THEN Chr("[") \o ws \o WriteItems(d[2], 1, ws) \o Chr("]")
    ELSE Chr("{") \o ws \o WriteMembers(d[2], 1, ws) \o Chr("}")
WriteItems(items, i, ws) ==
    IF i > Len(items) THEN << >>
    ELSE Write(items[i], ws) \o ws
         \o (IF i < Len(items) THEN Chr(",") \o ws ELSE << >>)
         \o WriteItems(items, i + 1, ws)
WriteMembers(members, i, ws) ==
    IF i > Len(members) THEN << >>
    ELSE Chr("\"") \o members[i][1] \o Chr("\"") \o ws \o Chr(":") \o ws
         \o Write(members[i][2], ws) \o ws
         \o (IF i < Len(members) THEN Chr(",") \o ws ELSE << >>)
         \o WriteMembers(members, i + 1, ws)

\* what follows the document in the stream
Trailers ==
    {<< >>, Chr(" "), Str(<<"\n", " ">>),
     Str(<<" ", "1">>), Str(<<" ", "t", "r", "u", "e">>), Str(<<" ", "1", " ">>),
     Str(<<" ", "\"", "a", "\"">>), Str(<<" ", "[", "]">>), Chr("]"), Chr(","),
     Str(<<"\n", "{">>), Str(<<" ", "x">>), Str(<<" ", "-">>)}

\* a document written compactly with any trailer, or with whitespace around
\* its tokens and nothing after it
InitDoc ==
    \E d \in Docs, ws \in Spacings, tr \in Trailers :
        /\ ws = << >> \/ tr = << >>
        /\ Start(Write(d, ws) \o tr, d, Len(Write(d, ws)))

NextDoc == ParserRun \/ ReadResult

SpecDoc == InitDoc /\ [][NextDoc]_vars

----------------------------------------------------------------------------
(* What the claims about documents speak of *)

\* what follows the document in the input
Trailer == SubSeq(input, docLen + 1, Len(input))

\* the input is the document and whitespace: it is well-formed
WellFormed == doc # DocNone /\ \A k \in 1..Len(Trailer) : is_whitespace(<<Trailer[k]>>)

\* there is content other than whitespace after the top-level value (every
\* trailer starts with whitespace or a structural character, so the value
\* ends where the document does)
TrailingContent == doc # DocNone /\ \E k \in 1..Len(Trailer) : ~is_whitespace(<<Trailer[k]>>)

\* C1: run() parses exactly one top-level value: with content other than
\* whitespace after it, run() does not return but raises the
\* unexpected-lexeme or the expected-end-of-document error
C1_TrailingContentFails ==
    (status # "idle" /\ TrailingContent) =>
        /\ status = "raised"
        /\ raised.exc = "JSONParserError"
        /\ raised.msg_id \in {ERR_UNEXPECTED_LEXEME_FMT, ERR_EXPECTED_EOF}

\* the callbacks other than textpos_changed, in order
RECURSIVE ValueEvents(_)
ValueEvents(evs) ==
    IF evs = << >> THEN << >>
    ELSE (IF evs[1].name = "textpos_changed" THEN << >> ELSE <<evs[1]>>) \o ValueEvents(Tail(evs))

\* the callbacks a document is due, in document order
RECURSIVE DocEvents(_)
RECURSIVE ItemEvents(_, _)
RECURSIVE MemberEvents(_, _)
DocEvents(d) ==
    IF d[1] = "scalar" THEN <<d[4]>>
    ELSE IF d[1] = "array"
    THEN <<Event("on_begin_array", "", << >>, 0, NoPos)>> \o ItemEvents(d[2], 1)
         \o <<Event("on_end_array", "", << >>, Len(d[2]), NoPos)>>
    ELSE <<Event("on_begin_object", "", << >>, 0, NoPos)>> \o MemberEvents(d[2], 1)
         \o <<Event("on_end_object", "", << >>, Len(d[2]), NoPos)>>
ItemEvents(items, i) ==
    IF i > Len(items) THEN << >> ELSE DocEvents(items[i]) \o ItemEvents(items, i + 1)
MemberEvents(members, i) ==
    IF i > Len(members) THEN << >>
    ELSE <<Event("on_member_name", "", members[i][1], 0, NoPos)>> \o DocEvents(members[i][2])
         \o MemberEvents(members, i + 1)

\* where the events of the one value that starts at evs[i] end (the index
\* after them), 0 when no properly nested value starts there: an array is
\* on_begin_array, values, and on_end_array with their number; an object is
\* on_begin_object, on_member_name and a value each time, and on_end_object
\* with the number of names
RECURSIVE ValueEnd(_, _)
RECURSIVE ItemsEnd(_, _, _)
RECURSIVE MembersEnd(_, _, _)
ValueEnd(evs, i) ==
    IF i > Len(evs) THEN 0
    ELSE IF evs[i].name \in {"on_literal", "on_number", "on_string"} THEN i + 1
    ELSE IF evs[i].name = "on_begin_array" THEN ItemsEnd(evs, i + 1, 0)
    ELSE IF evs[i].name = "on_begin_object" THEN MembersEnd(evs, i + 1, 0)
    ELSE 0
ItemsEnd(evs, i, n) ==
    IF i > Len(evs) THEN 0
    ELSE IF evs[i].name = "on_end_array" THEN (IF evs[i].count = n THEN i + 1 ELSE 0)
    ELSE LET j == ValueEnd(evs, i) IN IF j = 0 THEN 0 ELSE ItemsEnd(evs, j, n + 1)
MembersEnd(evs, i, n) ==
    IF i > Len(evs) THEN 0
    ELSE IF evs[i].name = "on_end_object" THEN (IF evs[i].count = n THEN i + 1 ELSE 0)
    ELSE IF evs[i].name # "on_member_name" THEN 0
    ELSE LET j == ValueEnd(evs, i + 1) IN IF j = 0 THEN 0 ELSE MembersEnd(evs, j, n + 1)

\* C2: on a well-formed input the callbacks of run() are one properly nested
\* value: every end closes the latest open begin of its kind with the number
\* of its direct elements or member names, every member name is followed by
\* one value; and they are the callbacks of the document, in document order
C2_EventsNested ==
    (status # "idle" /\ WellFormed) =>
        /\ status = "returned"
        /\ ValueEnd(ValueEvents(events), 1) = Len(ValueEvents(events)) + 1
        /\ ValueEvents(events) = DocEvents(doc)

\* run() has returned from an array in an object in which a name is repeated
C2_Witness ==
    /\ status = "returned"
    /\ WellFormed
    /\ doc[1] = "object"
    /\ Len(doc[2]) = 2
    /\ doc[2][1][1] = doc[2][2][1]
    /\ doc[2][1][2][1] = "array"
    /\ events # << >>

\* a Python value is the value of a document: a scalar is its value, a list
\* has the values of the elements in order, a dict has the names of the
\* object and under each name the value of the last member of that name
\* (the least a map that holds every name/value pair has to hold)
RECURSIVE DeepEqual(_, _)
DeepEqual(v, d) ==
    IF d[1] = "scalar" THEN v = d[3]
    ELSE IF d[1] = "array"
    THEN /\ v[1] = "list"
         /\ Len(v[2]) = Len(d[2])
         /\ \A i \in 1..Len(d[2]) : DeepEqual(v[2][i], d[2][i])
    ELSE /\ v[1] = "dict"
         /\ DOMAIN v[2] = {d[2][i][1] : i \in 1..Len(d[2])}
         /\ \A i \in 1..Len(d[2]) :
                (\A j \in (i + 1)..Len(d[2]) : d[2][j][1] # d[2][i][1]) =>
                    DeepEqual(v[2][d[2][i][1]], d[2][i][2])

\* C3: after run() on a well-formed document, result is deeply equal to the
\* document's value: literals, numbers and strings are their values, lists
\* keep the order of the elements, containers nest as in the document, and
\* every object holds the names of the document with their values
C3_ResultDeepEqual ==
    (status = "returned" /\ WellFormed /\ result # NotRead) => DeepEqual(result, doc)

\* no object of the document has two members of one name
RECURSIVE NoRepeatedName(_)
NoRepeatedName(d) ==
    IF d[1] = "scalar" THEN TRUE
    ELSE IF d[1] = "array" THEN \A i \in 1..Len(d[2]) : NoRepeatedName(d[2][i])
    ELSE /\ \A i, j \in 1..Len(d[2]) : d[2][i][1] = d[2][j][1] => i = j
         /\ \A i \in 1..Len(d[2]) : NoRepeatedName(d[2][i][2])

\* result is deeply equal to the value of every well-formed document in
\* which no object repeats a member name
ResultDeepEqualNoRepeat ==
    (status = "returned" /\ WellFormed /\ NoRepeatedName(doc) /\ result # NotRead) =>
        DeepEqual(result, doc)

----------------------------------------------------------------------------
(* Broken documents: the parser over the text of a document cut short, *)
(* and a token after it                                                *)

\* what follows the cut
CutTrailers ==
    {<< >>, Chr(" "), Chr("}"), Chr("]"), Chr(","), Chr(":"), Str(<<" ", "1">>),
     Str(<<"\"", "a", "\"">>)}

\* the scalars of the documents that are cut: a number and a string
CutScalars == {s \in Scalars : s[4].name \in {"on_number", "on_string"} /\ s[4].kind # "NT_FLOAT"}

\* every scalar within the document is one of these
RECURSIVE WrittenWith(_, _)
WrittenWith(d, scalars) ==
    CASE d[1] = "scalar" -> d \in scalars
      [] d[1] = "array"  -> \A i \in 1..Len(d[2]) : WrittenWith(d[2][i], scalars)
      [] d[1] = "object" -> \A i \in 1..Len(d[2]) : WrittenWith(d[2][i][2], scalars)

CutDocs == {d \in Docs : WrittenWith(d, CutScalars)}

InitCut ==
    \E d \in CutDocs, tr \in CutTrailers :
        \E n \in 0..Len(Write(d, << >>)) :
            Start(SubSeq(Write(d, << >>), 1, n) \o tr, DocNone, 0)

NextCut == ParserRun \/ ReadResult

SpecCut == InitCut /\ [][NextCut]_vars

----------------------------------------------------------------------------
(* What the claims about broken documents speak of *)

\* the lexemes of the input up to the end of the stream (ok) or up to the
\* first lexical error
RECURSIVE LexAll(_, _)
LexAll(L, acc) ==
    LET r == next_lexeme(L) IN
    IF r.out.kind = "lexeme" THEN LexAll(r.lx, Append(acc, r.out))
    ELSE [toks |-> acc, ok |-> r.out.kind = "none"]

InputTokens == LexAll(LexerInit, << >>)

\* the i-th token, "EOS" past the last
Tok(toks, i) == IF i <= Len(toks) THEN toks[i].token ELSE "EOS"

IsScalarToken(t) ==
    t \in {"LITERAL_FALSE", "LITERAL_NULL", "LITERAL_TRUE",
           "NUMBER_INT", "NUMBER_DECIMAL", "NUMBER_FLOAT", "STRING"}

\* how a reading of the grammar ends: "ok" with the index after the value,
\* or the first thing that is missing and the index of the '[' or '{' of the
\* array or object it is missing from
Read(end, open, next) == [end |-> end, open |-> open, next |-> next]

\* the JSON grammar over the tokens: a value is due at the i-th token; an
\* item of the array opened at open is due; a member name of the object
\* opened at open is due
RECURSIVE ReadValue(_, _)
RECURSIVE ReadItems(_, _, _)
RECURSIVE ReadMembers(_, _, _)
ReadValue(toks, i) ==
    IF IsScalarToken(Tok(toks, i)) THEN Read("ok", 0, i + 1)
    ELSE IF Tok(toks, i) = "BEGIN_ARRAY" THEN
        IF Tok(toks, i + 1) = "END_ARRAY" THEN Read("ok", 0, i + 2)
        ELSE IF Tok(toks, i + 1) = "EOS" THEN Read("array not terminated", i, i + 1)
        ELSE ReadItems(toks, i, i + 1)
    ELSE IF Tok(toks, i) = "BEGIN_OBJECT" THEN
        IF Tok(toks, i + 1) = "END_OBJECT" THEN Read("ok", 0, i + 2)
        ELSE IF Tok(toks, i + 1) = "EOS" THEN Read("object not terminated", i, i + 1)
        ELSE ReadMembers(toks, i, i + 1)
    ELSE Read("no value", 0, i)
ReadItems(toks, open, i) ==
    LET v == ReadValue(toks, i) IN
    IF v.end # "ok" THEN v
    ELSE IF Tok(toks, v.next) = "VALUE_SEPARATOR" THEN
        IF Tok(toks, v.next + 1) = "EOS" THEN Read("no item", open, v.next + 1)
        ELSE ReadItems(toks, open, v.next + 1)
    ELSE IF Tok(toks, v.next) = "END_ARRAY" THEN Read("ok", 0, v.next + 1)
    ELSE Read("array not terminated", open, v.next)
ReadMembers(toks, open, i) ==
    IF Tok(toks, i) # "STRING" THEN Read("no member name", open, i)
    ELSE IF Tok(toks, i + 1) # "NAME_SEPARATOR" THEN Read("no name separator", open, i + 1)
    ELSE IF Tok(toks, i + 2) = "EOS" THEN Read("no value after separator", open, i + 2)
    ELSE LET v == ReadValue(toks, i + 2) IN
         IF v.end # "ok" THEN v
         ELSE IF Tok(toks, v.next) = "VALUE_SEPARATOR" THEN
             IF Tok(toks, v.next + 1) = "EOS" THEN Read("no member name", open, v.next + 1)
             ELSE ReadMembers(toks, open, v.next + 1)
         ELSE IF Tok(toks, v.next) = "END_OBJECT" THEN Read("ok", 0, v.next + 1)
         ELSE Read("object not terminated", open, v.next)

\* the reading of the input when it has no lexical error
Reading == ReadValue(InputTokens.toks, 1)

\* run() has ended on an input without lexical error whose reading ends so
Ends(end) == status # "idle" /\ InputTokens.ok /\ Reading.end = end

\* run() has raised the JSONParserError of this message
Raised(msg_id) == status = "raised" /\ raised.exc = "JSONParserError" /\ raised.msg_id = msg_id

\* C18: whenever an array is not terminated by ']' (the stream ends, or a
\* token that is neither ',' nor ']' follows an element), run() raises the
\* unclosed-array error at the position of that array's '[', whatever was
\* read after it
C18_UnclosedArrayAtBracket ==
    Ends("array not terminated") =>
        /\ Raised(ERR_UNCLOSED_ARRAY)
        /\ raised.pos = InputTokens.toks[Reading.open].pos

\* C19: whenever an object is not terminated by '}' (the stream ends right
\* after '{', or a token that is neither ',' nor '}' follows a member's
\* value), run() raises the unclosed-object error at the position of that
\* object's '{', however many members were read after it
C19_UnclosedObjectAtBrace ==
    Ends("object not terminated") =>
        /\ Raised(ERR_UNCLOSED_OBJECT)
        /\ raised.pos = InputTokens.toks[Reading.open].pos

\* an object within an array has been reported unclosed after a member, at
\* a token that is no separator
C19_Witness ==
    /\ Ends("object not terminated")
    /\ Raised(ERR_UNCLOSED_OBJECT)
    /\ Reading.open = 2
    /\ raised.pos = TextPos(1, 2)
    /\ Reading.next <= Len(InputTokens.toks)
    /\ Len(SelectSeq(events, LAMBDA e : e.name = "on_member_name")) = 1

\* the events from the on_begin_object of the object opened at the open-th
\* token on
EventsFrom(open) ==
    LET nth == Cardinality({k \in 1..open : InputTokens.toks[k].token = "BEGIN_OBJECT"})
        begins == {i \in 1..Len(events) : events[i].name = "on_begin_object"}
        at == CHOOSE i \in begins : Cardinality({j \in begins : j <= i}) = nth
    IN  SubSeq(events, at, Len(events))

\* the object opened at the open-th token has its on_begin_object and no
\* on_end_object: every on_end_object after it ends an object begun after it
NotEnded(open) ==
    Len(SelectSeq(EventsFrom(open), LAMBDA e : e.name = "on_end_object"))
        < Len(SelectSeq(EventsFrom(open), LAMBDA e : e.name = "on_begin_object"))

\* C20: inside an object, a token other than a string where a member name
\* is due ('}' after a ',' included), or the end of the stream after a ',',
\* raises the expected-member-name error; a member name followed by another
\* token than ':' or by the end of the stream raises the
\* expected-name-separator error; a ':' followed by the end of the stream
\* raises the expected-value error; and no on_end_object is emitted for that
\* object
C20_MemberErrors ==
    /\ Ends("no member name") => Raised(ERR_EXPECTED_MEMBER_NAME) /\ NotEnded(Reading.open)
    /\ Ends("no name separator") => Raised(ERR_EXPECTED_NAME_SEPARATOR) /\ NotEnded(Reading.open)
    /\ Ends("no value after separator") => Raised(ERR_EXPECTED_VALUE) /\ NotEnded(Reading.open)

\* after a member whose value is an object that has ended, the stream has
\* ended at the ':' of the second member
C20_Witness ==
    /\ Ends("no value after separator")
    /\ Raised(ERR_EXPECTED_VALUE)
    /\ Reading.open = 1
    /\ Len(SelectSeq(events, LAMBDA e : e.name = "on_end_object")) = 1
    /\ Len(SelectSeq(events, LAMBDA e : e.name = "on_member_name")) = 2

\* the callbacks other than textpos_changed
ValueOrStructure(evs) == SelectSeq(evs, LAMBDA e : e.name # "textpos_changed")

\* the textpos_changed callbacks
Notifications(evs) == SelectSeq(evs, LAMBDA e : e.name = "textpos_changed")

\* the token read last was notified and no other callback followed it
NothingEmittedFor(i) ==
    /\ Len(Notifications(events)) = i
    /\ events[Len(events)].name = "textpos_changed"

\* C21: when a value is due (at the top level, as an array element, after a
\* ',' in an array, after the ':' of a member) and the token there is ']',
\* '}', ':' or ',', run() raises the expected-value-but-found error and
\* calls no on_* callback for that token; when the stream ends after the ','
\* that follows an array element, run() raises the expected-array-item error
C21_NoValueToken ==
    /\ (Ends("no value") /\ Tok(InputTokens.toks, Reading.next) # "EOS") =>
           /\ Tok(InputTokens.toks, Reading.next)
                  \in {"END_ARRAY", "END_OBJECT", "NAME_SEPARATOR", "VALUE_SEPARATOR"}
           /\ Raised(ERR_EXPECTED_VALUE_BUT_FOUND_FMT)
           /\ NothingEmittedFor(Reading.next)
    /\ Ends("no item") => Raised(ERR_EXPECTED_ARRAY_ITEM)

\* an array with a trailing comma has been rejected at its ']' after its
\* element was emitted
C21_Witness ==
    /\ Ends("no value")
    /\ Raised(ERR_EXPECTED_VALUE_BUT_FOUND_FMT)
    /\ Reading.next = 4
    /\ Tok(InputTokens.toks, 1) = "BEGIN_ARRAY"
    /\ Tok(InputTokens.toks, 3) = "VALUE_SEPARATOR"
    /\ Tok(InputTokens.toks, 4) = "END_ARRAY"
    /\ Len(ValueOrStructure(events)) = 2

----------------------------------------------------------------------------
(* Texts: the lexer, and the parser, over every text of a few tokens, *)
(* whitespace and other characters                                    *)

MaxText == 3

TextFrags ==
    {Chr(" "), Chr("\n"), Chr("["), Chr("]"), Chr("{"), Chr("}"), Chr(":"), Chr(","),
     Chr("1"), Chr("x"), Str(<<"0", ".", "1">>), Str(<<"-", "e", "1">>),
     Str(<<"\"", "a", "\"">>)}

InitText ==
    \E t \in FragTexts(TextFrags, MaxText - 1), f \in TextFrags \cup {<< >>} :
        Start(t \o f, DocNone, 0)

NextText == LexerNextLexeme \/ ParserRun \/ ReadResult

SpecText == InitText /\ [][NextText]_vars

----------------------------------------------------------------------------
(* What the claims about any text speak of *)

\* the input is empty or made of whitespace only
Blank == \A k \in 1..Len(input) : input[k] \in {32, 9, 13, 10}

\* C22: over an input that is empty or holds whitespace only, every call of
\* Lexer.next_lexeme returns the end-of-stream marker and raises nothing,
\* run() returns having called no handler callback at all, and
\* SAXHandlerBasic.result is None
C22_BlankInput ==
    Blank =>
        /\ \A k \in 1..Len(lexemes) : lexemes[k].kind = "none"
        /\ status # "idle" => (status = "returned" /\ events = << >>)
        /\ result # NotRead => result = PyNone

\* run() has returned over a space and a newline and the result has been
\* read
C22_Witness ==
    /\ input = <<32, 10>>
    /\ status = "returned"
    /\ lexer.eof
    /\ events = << >>
    /\ result = PyNone

\* the callback ev made on a SAXHandlerBasic whose stack is stk
HandlerCall(stk, ev) ==
    CASE ev.name = "on_literal" -> on_literal(stk, ev.kind)
      [] ev.name = "on_number" -> on_number(stk, ev.kind, ev.text)
      [] ev.name = "on_string" -> on_string(stk, ev.text)
      [] ev.name = "on_member_name" -> on_member_name(stk, ev.text)
      [] ev.name = "on_begin_object" -> on_begin_object(stk)
      [] ev.name = "on_end_object" -> on_end_object(stk, ev.count)
      [] ev.name = "on_begin_array" -> on_begin_array(stk)
      [] ev.name = "on_end_array" -> on_end_array(stk, ev.count)
      [] ev.name = "textpos_changed" -> textpos_changed(stk, ev.pos)

\* the handler's stack after the first k callbacks
RECURSIVE StackAfter(_)
StackAfter(k) == IF k = 0 THEN << >> ELSE HandlerCall(StackAfter(k - 1), events[k]).stack

\* what the k-th callback raised ("" when it returned)
RaisedBy(k) == HandlerCall(StackAfter(k - 1), events[k]).exc

\* run() has raised a lexical error
RaisedByLexer == status = "raised" /\ raised.exc = "JSONParserError" /\ raised.msg_id < 2000

\* run() has raised at a token that the grammar does not allow
RaisedAtToken ==
    /\ status = "raised" /\ raised.exc = "JSONParserError" /\ raised.msg_id >= 2000
    /\ Reading.end # "ok"
    /\ Reading.next <= Len(InputTokens.toks)

\* C23: a callback that raises during run() is the last callback made, and
\* run() ends raising the exception of that callback; and when run() raises
\* a JSONParserError no callback is made after the textpos_changed of the
\* token the parser fails at, nor any for a lexeme that did not scan
C23_HandlerErrorPropagates ==
    /\ \A k \in 1..Len(events) :
           RaisedBy(k) # "" =>
               /\ k = Len(events)
               /\ status = "raised"
               /\ raised = PyError(RaisedBy(k))
    /\ RaisedAtToken => NothingEmittedFor(Reading.next)
    /\ RaisedByLexer => Len(Notifications(events)) = Len(InputTokens.toks)

\* on_number has raised ValueError on the first element of an array, and
\* the ']' after it was not taken for a lexeme
C23_Witness ==
    /\ status = "raised"
    /\ raised = PyError("ValueError")
    /\ Len(events) = 4
    /\ events[2].name = "on_begin_array"
    /\ RaisedBy(4) = "ValueError"
    /\ lexer.c = <<93>>
    /\ ~lexer.c_accepted

\* the lexer of the input after n calls of next_lexeme, and what the last
\* of them gave
RECURSIVE LexerAfter(_)
LexerAfter(n) == IF n = 0 THEN Ret(LexerInit, None) ELSE next_lexeme(LexerAfter(n - 1).lx)

\* the callbacks a lexeme of this token gives rise to
EventsOf(token) ==
    CASE token = "BEGIN_ARRAY" -> {"on_begin_array"}
      [] token = "END_ARRAY" -> {"on_end_array"}
      [] token = "BEGIN_OBJECT" -> {"on_begin_object"}
      [] token = "END_OBJECT" -> {"on_end_object"}
      [] token = "STRING" -> {"on_string", "on_member_name"}
      [] token \in {"NUMBER_INT", "NUMBER_DECIMAL", "NUMBER_FLOAT"} -> {"on_number"}
      [] token \in {"LITERAL_FALSE", "LITERAL_NULL", "LITERAL_TRUE"} -> {"on_literal"}
      [] OTHER -> {}

\* what the first n calls of next_lexeme on the input give, the state
\* before the first call at the head
RECURSIVE LexerCalls(_, _)
LexerCalls(calls, n) ==
    IF n = 0 THEN calls
    ELSE LexerCalls(Append(calls, next_lexeme(calls[Len(calls)].lx)), n - 1)

\* C24: when run() has ended, the k-th textpos_changed carries the position
\* the lexer had right after its k-th lexeme was scanned, whatever was read
\* later; the lexer has made one call more than there are notifications
\* only when that call gave no lexeme; and every on_* callback comes right
\* after the notification of the lexeme it derives from
C24_OneNotificationPerLexeme ==
    status # "idle" =>
        LET notes == Notifications(events)
            n == Len(notes)
            calls == LexerCalls(<<Ret(LexerInit, None)>>, n + 1)
            after == [k \in 0..(n + 1) |-> calls[k + 1]]
            noted == [i \in 1..Len(events) |-> Len(Notifications(SubSeq(events, 1, i)))]
        IN
        /\ \A k \in 1..n :
               /\ after[k].out.kind = "lexeme"
               /\ notes[k].pos = make_copy(after[k].lx)
        /\ \/ lexer = after[n].lx
           \/ after[n + 1].out.kind # "lexeme" /\ lexer = after[n + 1].lx
        /\ \A i \in 1..Len(events) :
               events[i].name # "textpos_changed" =>
                   /\ i > 1
                   /\ events[i - 1].name = "textpos_changed"
                   /\ events[i].name \in EventsOf(after[noted[i]].out.token)

\* run() has returned over a document of two lines: the first notification
\* is of the first line, the lexer has ended on the second
C24_Witness ==
    /\ status = "returned"
    /\ Len(Notifications(events)) >= 4
    /\ Notifications(events)[1].pos.line = 1
    /\ Notifications(events)[2].pos.line = 2
    /\ lexer.line >= 3
    /\ lexer.eof

----------------------------------------------------------------------------
(* What the claims about the characters of a number speak of *)

IsExponentMarker(ch) == ch \in {101, 69}

\* the i-th character of the input is a '+' that does not follow the
\* exponent marker at once, a '.' that does not follow an integer part of
\* digits, or a second exponent marker
Misplaced(i) ==
    \/ /\ input[i] = 43
       /\ ~(i > 1 /\ IsExponentMarker(input[i - 1]))
    \/ /\ input[i] = 46
       /\ \/ \E j \in 1..(i - 1) : input[j] = 46 \/ IsExponentMarker(input[j])
          \/ \A j \in 1..(i - 1) : input[j] \notin 48..57
    \/ /\ IsExponentMarker(input[i])
       /\ \E j \in 1..(i - 1) : IsExponentMarker(input[j])

\* C26: in a number that starts the input, a '+' elsewhere than right after
\* the exponent marker (leading, after an exponent sign or digit), a '.'
\* elsewhere than after the digits of the integer part (right after '-', a
\* second '.', after the exponent marker) and a second exponent marker are
\* rejected: the scan reads no character past it and the lexeme returned
\* holds none of it
C26_PlusAndPointPlaces ==
    (Len(lexemes) = 1 /\ input # << >> /\ <<input[1]>> \in DEC_DIGITS_S) =>
        \A i \in 1..Len(input) :
            Misplaced(i) =>
                /\ lexer.rd <= i
                /\ lexemes[1].kind = "lexeme" => Len(lexemes[1].text) < i

\* the scan of 1.1.1 has stopped at the second '.'
C26_Witness ==
    /\ input = <<49, 46, 49, 46, 49>>
    /\ Len(lexemes) = 1
    /\ Misplaced(4)
    /\ lexer.rd = 4
    /\ IsInvalidNumber(lexemes[1])

\* the lexeme the i-th callback derives from: that of the last notification
\* before it
LexemeOf(i) == LexerAfter(Len(Notifications(SubSeq(events, 1, i)))).out

\* C25: every on_number callback carries NT_INTEGER when its lexeme is a
\* NUMBER_INT and NT_FLOAT when it is a NUMBER_DECIMAL or a NUMBER_FLOAT,
\* never NT_DECIMAL or NT_UNKNOWN, and the text of the lexeme as it is
C25_NumberKinds ==
    \A i \in 1..Len(events) :
        events[i].name = "on_number" =>
            /\ LexemeOf(i).token \in {"NUMBER_INT", "NUMBER_DECIMAL", "NUMBER_FLOAT"}
            /\ events[i].kind =
                   (IF LexemeOf(i).token = "NUMBER_INT" THEN "NT_INTEGER" ELSE "NT_FLOAT")
            /\ events[i].text = LexemeOf(i).text

\* an array of one decimal has been read: its on_number carried NT_FLOAT
C25_Witness ==
    /\ status = "returned"
    /\ Len(events) = 6
    /\ events[2].name = "on_begin_array"
    /\ events[4].name = "on_number"
    /\ events[4].kind = "NT_FLOAT"
    /\ LexemeOf(4).token = "NUMBER_DECIMAL"
    /\ LexemeOf(4).numeric_kind = "NT_DECIMAL"

----------------------------------------------------------------------------
(* What the claims about repeated member names speak of *)

\* the i-th member of the object is the last of its name
LastOfItsName(members, i) ==
    \A j \in (i + 1)..Len(members) : members[j][1] # members[i][1]

\* C27: the dict that on_end_object builds for an object holds, for every
\* name, the value of the last member of that name in the document
C27_LastOccurrenceWins ==
    (status = "returned" /\ WellFormed /\ doc[1] = "object" /\ result # NotRead) =>
        \A i \in 1..Len(doc[2]) :
            LastOfItsName(doc[2], i) =>
                DeepEqual(result[2][doc[2][i][1]], doc[2][i][2])

----------------------------------------------------------------------------
(* What the claims about the defensive branches speak of *)

\* the messages of the guards of parse_array, parse_object, parse_literal,
\* parse_number and parse_string
GuardMessages ==
    {ERR_EXPECTED_ARRAY, ERR_EXPECTED_OBJECT, ERR_EXPECTED_LITERAL, ERR_EXPECTED_NUMBER,
     ERR_EXPECTED_STRING}

\* the error of the last statement of Lexer.next_lexeme: the only
\* unexpected-character error raised with the lexer's own position
FromLastStatement(r) ==
    r.kind = "error" /\ r.exc = "JSONParserError" /\ r.msg_id = ERR_UNEXPECTED_CHAR_FMT /\ r.aliased

\* C28: run() never raises the expected-array, expected-object,
\* expected-literal, expected-number or expected-string error; no lexeme
\* the lexer returns, to its caller or to the parser, has the token UNKNOWN;
\* and the last statement of Lexer.next_lexeme never raises
C28_DefensiveBranchesUnreachable ==
    /\ status = "raised" => ~(raised.exc = "JSONParserError" /\ raised.msg_id \in GuardMessages)
    /\ ~FromLastStatement(raised)
    /\ \A k \in 1..Len(lexemes) :
           /\ lexemes[k].kind = "lexeme" => lexemes[k].token # "UNKNOWN"
           /\ ~FromLastStatement(lexemes[k])
    /\ \A k \in 1..Len(Notifications(events)) : LexerAfter(k).out.token # "UNKNOWN"

\* run() has passed the guards of parse_array and of parse_number and has
\* raised another error
C28_Witness ==
    /\ status = "raised"
    /\ raised.exc = "JSONParserError"
    /\ raised.msg_id = ERR_UNCLOSED_ARRAY
    /\ Len(events) = 5
    /\ events[2].name = "on_begin_array"
    /\ events[4].name = "on_number"

----------------------------------------------------------------------------
(* What the claims about the end of the stream speak of *)

\* next_lexeme has returned the end-of-stream marker before
EndOfStreamReturned == \E k \in 1..Len(lexemes) : lexemes[k].kind = "none"

\* C29: once next_lexeme has returned the end-of-stream marker, every later
\* call of next_lexeme on the same lexer returns the marker too, raises
\* nothing and leaves the line and the column of the lexer as they were
C29_EndOfStreamStable ==
    [][(lexemes' # lexemes /\ EndOfStreamReturned) =>
           /\ Returned.kind = "none"
           /\ lexer'.line = lexer.line
           /\ lexer'.col = lexer.col]_vars

\* after a lexeme, the end of the stream has been returned twice, on the
\* second line
C29_Witness ==
    /\ Len(lexemes) = 3
    /\ lexemes[1].kind = "lexeme"
    /\ lexemes[2].kind = "none"
    /\ lexemes[3].kind = "none"
    /\ lexer.line = 2
    /\ lexer.eof

----------------------------------------------------------------------------
(* Loops: the lexer, and the parser, over every short text of one-character *)
(* lexemes, spaces and a character that starts none; the callers go on: the *)
(* loop that calls next_lexeme makes its next call, run() is called, the    *)
(* result is read                                                           *)

MaxLoopLen == 3

LoopChars == {Ord[" "], Ord["["], Ord["]"], Ord[","], Ord["1"], Ord["x"]}

InitLoop == \E inp \in Texts(LoopChars, MaxLoopLen) : Start(inp, DocNone, 0)

NextLoop == LexerNextLexeme \/ ParserRun \/ ReadResult

SpecLoop == InitLoop /\ [][NextLoop]_vars

SpecLoopFair == SpecLoop /\ WF_vars(NextLoop)

----------------------------------------------------------------------------
(* What the claims about termination speak of *)

\* the lexemes next_lexeme has returned to its caller
LexemesReturned == Cardinality({k \in 1..Len(lexemes) : lexemes[k].kind = "lexeme"})

\* every lexeme returned, to the caller or to the parser, has its own
\* character among those read, and the parser has made at most two
\* callbacks for it
OneCharacterPerLexeme ==
    /\ lexer.rd <= Len(input)
    /\ LexemesReturned <= lexer.rd
    /\ Len(Notifications(events)) <= lexer.rd
    /\ Len(events) <= 2 * Len(Notifications(events))

\* run() has ended, or the loop that calls next_lexeme has been returned
\* the end of the stream or an error
Terminated == status # "idle" \/ Ended # {}

\* C30: the lexemes returned never outnumber the characters read, which
\* never outnumber those of the input; and run() ends, and the loop that
\* calls next_lexeme until it returns the end of the stream or raises ends
C30_Terminates == []OneCharacterPerLexeme /\ <>Terminated

\* the loop has ended on a text of three lexemes of one character each
C30_Witness ==
    /\ Len(input) = 3
    /\ LexemesReturned = 3
    /\ Len(lexemes) = 4
    /\ lexemes[4].kind = "none"
    /\ lexer.rd = 3

----------------------------------------------------------------------------
(* What the claims about the look-ahead of the lexer speak of *)

IsStructuralOrString(r) ==
    r.kind = "lexeme" /\ r.token \in ({STRUCTURALS[c] : c \in DOMAIN STRUCTURALS} \cup {"STRING"})

IsNumberOrLiteral(r) ==
    r.kind = "lexeme" /\ r.token \in {"NUMBER_INT", "NUMBER_DECIMAL", "NUMBER_FLOAT",
                                      "LITERAL_FALSE", "LITERAL_NULL", "LITERAL_TRUE"}

\* the n-th character is the last of the structural or string token that
\* starts at the i-th: it is the i-th itself, or the quote that closes the
\* string (the first quote after the i-th that no backslash escapes, when
\* the escapes of the string are well-formed)
IsLastCharOf(n, i) ==
    IF input[i] # 34 THEN n = i
    ELSE /\ n > i
         /\ input[n] = 34
         /\ Decode(input, i + 1, << >>).end = "closed" => n = Decode(input, i + 1, << >>).at

\* the call before returned a number or a literal and left the last
\* character read not accepted
HeldBack ==
    /\ lexemes # << >>
    /\ IsNumberOrLiteral(lexemes[Len(lexemes)])
    /\ ~lexer.c_accepted

\* C31: a call of next_lexeme that returns a structural or string lexeme has
\* read up to the lexeme's last character and no further; one that returns a
\* number or a literal returns the characters of the input from the token's
\* first on, has read at most one character past them, and holds that
\* character as not accepted; the call after it starts from that character:
\* it skips it as whitespace or starts its token at it
C31_OneLookahead ==
    [][CallBetweenTokens =>
        /\ IsStructuralOrString(Returned) =>
               /\ IsLastCharOf(lexer'.rd, TokAt)
               /\ lexer'.c_accepted
        /\ IsNumberOrLiteral(Returned) =>
               LET last == TokAt + Len(Returned.text) - 1 IN
               /\ Returned.text = SubSeq(input, TokAt, last)
               /\ lexer'.rd \in {last, last + 1}
               /\ lexer'.rd = last => lexer'.c_accepted
               /\ lexer'.rd = last + 1 =>
                      /\ ~lexer'.c_accepted
                      /\ lexer'.c = <<input[last + 1]>>
        /\ HeldBack =>
               /\ Returned.kind = "lexeme" =>
                      /\ Returned.pos = PosOf(FirstNonBlank(lexer.rd))
                      /\ lexer'.rd >= FirstNonBlank(lexer.rd)
               /\ Returned.kind = "none" => FirstNonBlank(lexer.rd) > Len(input)
               /\ FirstNonBlank(lexer.rd) = lexer.rd =>
                      /\ Returned.kind = "lexeme"
                      /\ Returned.text = lexer.c
                      /\ lexer'.rd = lexer.rd]_vars

----------------------------------------------------------------------------
(* What the claims about the stack of SAXHandlerBasic speak of *)

\* the stacks the handler has had: before the first of the callbacks evs,
\* then after each of them
RECURSIVE StacksOver(_, _)
StacksOver(evs, stacks) ==
    IF Len(stacks) > Len(evs) THEN stacks
    ELSE StacksOver(evs, Append(stacks, HandlerCall(stacks[Len(stacks)], evs[Len(stacks)]).stack))

\* the items on_end_array or on_end_object is to pop
ItemsToPop(ev) ==
    IF ev.name = "on_end_array" THEN ev.count
    ELSE IF ev.name = "on_end_object" THEN ev.count * 2
    ELSE 0

\* C32: in the callbacks run() has made on a SAXHandlerBasic, whether it
\* returned or raised: the callbacks of every complete value (a scalar, or a
\* begin up to the end that closes it) leave the stack exactly one item
\* longer than it was before the first of them, unless the last of them
\* raised; on_end_array and on_end_object find at least the items they are
\* to pop and do not raise; after run() has returned the stack holds one
\* item when a value was reported and none otherwise, and reading result
\* does not raise
C32_StackDiscipline ==
    status # "idle" =>
        LET evs == ValueOrStructure(events)
            stacks == StacksOver(evs, << << >> >>)
            exc(k) == HandlerCall(stacks[k], evs[k]).exc
        IN
        /\ \A i \in 1..Len(evs) :
               LET j == ValueEnd(evs, i) IN
               (j # 0 /\ exc(j - 1) = "") => Len(stacks[j]) = Len(stacks[i]) + 1
        /\ \A k \in 1..Len(evs) :
               /\ ItemsToPop(evs[k]) <= Len(stacks[k])
               /\ evs[k].name \in {"on_end_array", "on_end_object"} => exc(k) = ""
               /\ exc(k) # "" => k = Len(evs) /\ status = "raised"
        /\ result = NotRead => stack = stacks[Len(evs) + 1]
        /\ status = "returned" =>
               /\ result = NotRead => Len(stack) = (IF evs = << >> THEN 0 ELSE 1)
               /\ handler_result(stacks[Len(evs) + 1]).exc = ""
               /\ result # <<"raise", "JSONError">>

\* run() has returned from an object that holds an array of one element and
\* the result has been read: the stack held the name and the element before
\* on_end_array, the name and the list after it, and is empty now
C32_Witness ==
    /\ status = "returned"
    /\ result # NotRead
    /\ result[1] = "dict"
    /\ stack = << >>
    /\ \E k \in 1..Len(events) :
           /\ events[k].name = "on_end_array"
           /\ events[k].count = 1
           /\ Len(StackAfter(k - 1)) = 2
           /\ Len(StackAfter(k)) = 2
           /\ StackAfter(k)[2][1] = "list"

====
